---------------------------- MODULE Spec2Model ----------------------------
(***************************************************************************)
(* A model of the OMSCS catalog crawler (src/catalog/crawler.ts).          *)
(*                                                                         *)
(* Representation of text.  TLA+ has no characters, so markup and text are *)
(* modelled one level above them:                                          *)
(*   - a document is a sequence of elements (a heading, a paragraph or a   *)
(*     list); the position of an element is derived from its index;        *)
(*   - the text of a paragraph or of a list item is a sequence of words;   *)
(*   - a regular expression of the source is the predicate on elements or  *)
(*     words that accepts what the expression accepts;                     *)
(*   - a string "a-b-c" assembled by a template literal is the tuple       *)
(*     <<"a", "b", "c">> of its parts.                                     *)
(***************************************************************************)
EXTENDS Integers, Sequences, FiniteSets, TLC

(***************************************************************************)
(* Bounds of the model.                                                    *)
(***************************************************************************)
\* longest list of courses found on the current-courses page
MaxCrawl == 2
\* longest document (in elements) handed to extractSectionContent
MaxDoc == 3
\* largest core fragment: its paragraphs, lists and list items, counted together
MaxSize == 5

(***************************************************************************)
(* Values shared by the components.                                        *)
(***************************************************************************)
\* JavaScript's null where a string is expected
Null == "null"

\* all sequences over S of length at most n
SeqsUpTo(S, n) == UNION {[1..k -> S] : k \in 0..n}

\* the object {} : a mapping with no key
EmptyMap == [k \in {} |-> k]

\* obj[key] = value on a Record<string, T>
Put(obj, key, value) ==
  [k \in DOMAIN obj \cup {key} |-> IF k = key THEN value ELSE obj[k]]

\* a value of type Record<string, T> | null
NullMap == [present |-> FALSE, map |-> EmptyMap]
SomeMap(m) == [present |-> TRUE, map |-> m]

\* a file of the static directory: whether fs.existsSync finds it, whether
\* JSON.parse accepts its text, and the entries its text spells (for a text
\* that does not parse: the entries written before it breaks off)
AbsentFile == [present |-> FALSE, parses |-> FALSE, map |-> EmptyMap]
JsonFile(m) == [present |-> TRUE, parses |-> TRUE, map |-> m]
BrokenFile(m) == [present |-> TRUE, parses |-> FALSE, map |-> m]

\* mutant: the entries of a file that does not parse are used all the same
loadWhatIsThere(file) ==
  IF file.present THEN SomeMap(file.map) ELSE NullMap

\* the file is parsed if it exists; a parse error is caught and null returned
loadExistingCourses(file) ==
  IF file.present /\ file.parses THEN SomeMap(file.map) ELSE NullMap

loadExistingSpecializations(file) ==
  IF file.present /\ file.parses THEN SomeMap(file.map) ELSE NullMap

\* mutant: the merge starts from a new object, not from the persisted one
StartEmpty(existing) == EmptyMap

\* existing || {}
OrEmpty(existing) == IF existing.present THEN existing.map ELSE EmptyMap

(***************************************************************************)
(* Entity recognizer: parseCourseText and extractCourseId.                 *)
(* The character classes of the two expressions are sets of words.         *)
(***************************************************************************)
\* [A-Z]{2,4}
SubjectWords == {"CS", "CSE", "ISYE"}
\* \d{4}
NumberWords == {"6601", "6515", "7641", "8803"}
\* [A-Z]\d{2}
CodeWords == {"O08", "O01"}

\* the optional group (?:\s*([A-Z]\d{2}))? after SUBJECT NUMBER
HasCode(text) == Len(text) >= 3 /\ text[3] \in CodeWords

\* /^([A-Z]{2,4})\s*(\d{4})(?:\s*([A-Z]\d{2}))?/ matches at the start of text
MatchesCourseStart(text) ==
  /\ Len(text) >= 2
  /\ text[1] \in SubjectWords
  /\ text[2] \in NumberWords

\* the identifier of the course mentioned at the start of text, or Null
extractCourseId(text) ==
  IF ~MatchesCourseStart(text) THEN <<Null>>
  ELSE IF HasCode(text) THEN <<text[1], text[2], text[3]>>
  ELSE <<text[1], text[2]>>

\* whether the optional group takes the code when [:\s]+(.+)$ must follow:
\* with nothing after the code the expression backtracks, leaves the group
\* out and reads the code as the title
TakesCode(text) == HasCode(text) /\ Len(text) >= 4

\* [:\s]+(.+)$ : the words of the title, after the number and the code
TitleOf(text) ==
  IF TakesCode(text) THEN SubSeq(text, 4, Len(text)) ELSE SubSeq(text, 3, Len(text))

\* the Course read from text, or [found |-> FALSE] for null
parseCourseText(text, url, isFoundational) ==
  IF ~MatchesCourseStart(text) \/ TitleOf(text) = <<>> THEN [found |-> FALSE]
  ELSE [found |-> TRUE,
        course |->
          [courseId |-> IF TakesCode(text) THEN <<text[1], text[2], text[3]>>
                        ELSE <<text[1], text[2]>>,
           name |-> TitleOf(text),
           departmentId |-> text[1],
           courseNumber |-> IF TakesCode(text) THEN <<text[2], text[3]>> ELSE <<text[2]>>,
           url |-> url,
           isFoundational |-> isFoundational,
           aliases |-> <<>>,
           isDeprecated |-> FALSE]]

\* BASE_URL
BaseUrl == "https://omscs.gatech.edu"

\* urlPath.startsWith('http') ? urlPath : `${BASE_URL}${urlPath}`
AbsoluteUrl(urlPath) ==
  CASE urlPath = "/ai" -> "https://omscs.gatech.edu/ai"
    [] urlPath = "/compilers" -> "https://omscs.gatech.edu/compilers"
    [] OTHER -> urlPath

\* a list item of the course page: its text (asterisks removed), the href of
\* its link (Null without a link) and whether it holds an asterisk
parseCourseFromHtml(item) ==
  IF item.href = Null THEN parseCourseText(item.text, Null, item.star)
  ELSE parseCourseText(item.text, AbsoluteUrl(item.href), item.star)

\* the courses of the page's list items, in document order, unparsed items dropped
RECURSIVE crawlCurrentCourses(_)
crawlCurrentCourses(items) ==
  IF items = <<>> THEN <<>>
  ELSE LET parsed == parseCourseFromHtml(Head(items))
       IN  IF parsed.found
           THEN <<parsed.course>> \o crawlCurrentCourses(Tail(items))
           ELSE crawlCurrentCourses(Tail(items))

(***************************************************************************)
(* Catalog reconciler: mergeCourses and mergeSpecializations.              *)
(***************************************************************************)
\* aliases || [] : an array, empty or not, is truthy and is kept
OrEmptyArray(aliases) == aliases

\* isDeprecated || false
OrFalse(flag) == flag \/ FALSE

\* mutant: a course already keyed is left as it was persisted
KeepExisting(course, existing) == existing

\* mutant: the crawled record replaces the persisted one, curator fields included
OverwriteCurated(course, existing) == course

\* the record stored for a course already keyed: the crawled fields, with the
\* persisted aliases, isDeprecated and isFoundational
PreserveCurated(course, existing) ==
  [course EXCEPT !.aliases = OrEmptyArray(existing.aliases),
                 !.isDeprecated = OrFalse(existing.isDeprecated),
                 !.isFoundational = existing.isFoundational]

\* mutant: every crawled course is reported as new
ReportAlways(courses, courseId) == TRUE

\* !courses[course.courseId]
IsNewCourse(courses, courseId) == courseId \notin DOMAIN courses

\* the loop of mergeCourses over the crawled courses
RECURSIVE mergeCoursesLoop(_, _, _)
mergeCoursesLoop(crawledCourses, courses, newCourses) ==
  IF crawledCourses = <<>> THEN [courses |-> courses, newCourses |-> newCourses]
  ELSE LET course == Head(crawledCourses)
           id == course.courseId
       IN  IF IsNewCourse(courses, id)
           THEN mergeCoursesLoop(Tail(crawledCourses), Put(courses, id, course),
                                 Append(newCourses, id))
           ELSE mergeCoursesLoop(Tail(crawledCourses),
                                 Put(courses, id, PreserveCurated(course, courses[id])),
                                 newCourses)

mergeCourses(crawledCourses, existingCourses) ==
  mergeCoursesLoop(crawledCourses, OrEmpty(existingCourses), <<>>)

\* mutant: a crawled specialization is merged field by field, the persisted
\* elective list surviving
MergeSpecFields(specializations, spec) ==
  IF spec.specializationId \in DOMAIN specializations
  THEN Put(specializations, spec.specializationId,
           [spec EXCEPT !.electiveCourseIds =
                          specializations[spec.specializationId].electiveCourseIds])
  ELSE Put(specializations, spec.specializationId, spec)

\* specializations[spec.specializationId] = spec
ReplaceSpec(specializations, spec) ==
  Put(specializations, spec.specializationId, spec)

\* mutant: every crawled specialization is merged into the registry as it
\* was read before the loop, and the last write wins
mergeLastWriteWins(crawledSpecs, specializations) ==
  IF crawledSpecs = <<>> THEN specializations
  ELSE ReplaceSpec(specializations, crawledSpecs[Len(crawledSpecs)])

RECURSIVE mergeSpecializationsLoop(_, _)
mergeSpecializationsLoop(crawledSpecs, specializations) ==
  IF crawledSpecs = <<>> THEN specializations
  ELSE mergeSpecializationsLoop(Tail(crawledSpecs),
                                ReplaceSpec(specializations, Head(crawledSpecs)))

mergeSpecializations(crawledSpecs, existingSpecs) ==
  mergeSpecializationsLoop(crawledSpecs, OrEmpty(existingSpecs))

(***************************************************************************)
(* Markup.  An element is a heading <hN>label [(qualifier)]</hN>, a        *)
(* paragraph <p>text</p> or a list <ul><li>text</li>...</ul>.              *)
(***************************************************************************)
Heading(level, label, qual) ==
  [kind |-> "h", level |-> level, label |-> label, qual |-> qual,
   text |-> <<>>, items |-> <<>>]

Para(text) ==
  [kind |-> "p", level |-> 0, label |-> "", qual |-> FALSE,
   text |-> text, items |-> <<>>]

List(items) ==
  [kind |-> "list", level |-> 0, label |-> "", qual |-> FALSE,
   text |-> <<>>, items |-> items]

\* a value of type string | null, the string being a sequence of elements
NullSection == [found |-> FALSE, content |-> <<>>]
SomeSection(content) == [found |-> TRUE, content |-> content]

\* if (section) : null and the empty string are both falsy
Truthy(section) == section.found /\ section.content # <<>>

\* RegExp.exec: the index of the first match among the indices that match, or
\* 0 for null
FirstMatch(hits) ==
  IF hits = {} THEN 0 ELSE CHOOSE i \in hits : \A j \in hits : i <= j

(***************************************************************************)
(* Section segmenter: extractSectionContent.                               *)
(***************************************************************************)
\* /<h[34][^>]*>/ : the opening tag of an h3 or h4
IsHeaderTag(e) == e.kind = "h" /\ e.level \in {3, 4}

\* <h[34][^>]*>\s*NAME\s*\([^)]*\)\s*<\/h[34]> : the qualifier is required
IsSectionHeader(e, sectionName) ==
  IsHeaderTag(e) /\ e.label = sectionName /\ e.qual

\* <h[34][^>]*>\s*NAME\s*(?:\([^)]*\))?\s*<\/h[34]> : the qualifier is optional
IsNextHeader(e, nextSection) == IsHeaderTag(e) /\ e.label = nextSection

\* the loop over nextSectionNames: endIndex after the names were tried in order
RECURSIVE NextSectionEnd(_, _, _, _)
NextSectionEnd(html, startIndex, nextSectionNames, endIndex) ==
  IF nextSectionNames = <<>> THEN endIndex
  ELSE LET nextSection == Head(nextSectionNames)
           nextMatch == FirstMatch({i \in startIndex..Len(html) :
                                      IsNextHeader(html[i], nextSection)})
       IN  NextSectionEnd(html, startIndex, Tail(nextSectionNames),
                          IF nextMatch # 0 /\ nextMatch < endIndex
                          THEN nextMatch ELSE endIndex)

\* mutant: only the named next sections end the section
NoHeaderEnd(html, startIndex, endIndex) == endIndex

\* the loop over anyHeaderRegex: the first h3/h4 tag inside the section ends it
AnyHeaderEnd(html, startIndex, endIndex) ==
  LET tempHtml == SubSeq(html, startIndex, endIndex - 1)
      anyHeaderMatch == FirstMatch({i \in 1..Len(tempHtml) : IsHeaderTag(tempHtml[i])})
  IN  IF anyHeaderMatch # 0 /\ startIndex + anyHeaderMatch - 1 < endIndex
      THEN startIndex + anyHeaderMatch - 1
      ELSE endIndex

\* indices are those of the elements: startIndex is the element after the
\* header, endIndex the element that ends the section, Len(html) + 1 at the end
extractSectionContent(html, sectionName, nextSectionNames) ==
  LET headerMatch == FirstMatch({i \in 1..Len(html) :
                                  IsSectionHeader(html[i], sectionName)})
  IN  IF headerMatch = 0 THEN NullSection
      ELSE LET startIndex == headerMatch + 1
               named == NextSectionEnd(html, startIndex, nextSectionNames,
                                       Len(html) + 1)
               endIndex == AnyHeaderEnd(html, startIndex, named)
           IN  SomeSection(SubSeq(html, startIndex, endIndex - 1))

(***************************************************************************)
(* Pick-count phrases.  The three expressions of the source that read a    *)
(* count share the tail (?:one|two|three|four|five|(\d+))(?:\s*\((\d+)\))? *)
(***************************************************************************)
\* wordToNum
wordToNum(word) ==
  CASE word = "one" -> 1 [] word = "two" -> 2 [] word = "three" -> 3
    [] word = "four" -> 4 [] word = "five" -> 5

CountWords == {"one", "two", "three", "four", "five"}

\* \d+ , and parseInt(.., 10) of it
DigitWords == {"0", "1", "2", "3"}
ParseInt(word) ==
  CASE word = "0" -> 0 [] word = "1" -> 1 [] word = "2" -> 2 [] word = "3" -> 3

\* \((\d+)\) , and parseInt(.., 10) of its group
ParenWords == {"(1)", "(2)", "(3)"}
ParenInt(word) ==
  CASE word = "(1)" -> 1 [] word = "(2)" -> 2 [] word = "(3)" -> 3

\* toLowerCase, and the i flag of the expressions
Lower(word) ==
  CASE word = "And," -> "and," [] word = "And" -> "and" [] word = "Pick" -> "pick"
    [] word = "Or" -> "or" [] word = "Any" -> "any" [] word = "Core" -> "core"
    [] word = "Courses" -> "courses" [] word = "Special" -> "special"
    [] word = "Topics" -> "topics" [] OTHER -> word

\* the count at words[i]: its spelled word or its digit (group 1), the
\* parenthesized digit after it (group 2) and the number of words matched;
\* len = 0 when no count stands at i
CountAt(words, i) ==
  IF i > Len(words) \/ Lower(words[i]) \notin (CountWords \cup DigitWords)
  THEN [len |-> 0, word |-> Null, digit |-> Null, paren |-> Null]
  ELSE LET hasParen == i + 1 <= Len(words) /\ words[i + 1] \in ParenWords
       IN  [len |-> IF hasParen THEN 2 ELSE 1,
            word |-> IF Lower(words[i]) \in CountWords THEN Lower(words[i]) ELSE Null,
            digit |-> IF words[i] \in DigitWords THEN words[i] ELSE Null,
            paren |-> IF hasParen THEN words[i + 1] ELSE Null]

\* mutant: the spelled word wins over the digits
WordFirst(count, default) ==
  IF count.word # Null THEN wordToNum(count.word)
  ELSE IF count.paren # Null THEN ParenInt(count.paren)
  ELSE IF count.digit # Null THEN ParseInt(count.digit)
  ELSE default

\* the pickCount of a match: the default, then the first spelled word the
\* matched text includes, then group 1, then group 2
PickCountOf(count, default) ==
  LET spelled == IF count.word # Null THEN wordToNum(count.word) ELSE default
      digit == IF count.digit # Null THEN ParseInt(count.digit) ELSE spelled
  IN  IF count.paren # Null THEN ParenInt(count.paren) ELSE digit

\* /and,?\s*pick\s+COUNT/gi on one text: the pickCounts of its matches, in order
RECURSIVE AndPickMatches(_, _)
AndPickMatches(words, i) ==
  IF i + 2 > Len(words) THEN <<>>
  ELSE LET count == CountAt(words, i + 2)
       IN  IF /\ Lower(words[i]) \in {"and", "and,"}
              /\ Lower(words[i + 1]) = "pick"
              /\ count.len > 0
           THEN <<PickCountOf(count, 2)>> \o AndPickMatches(words, i + 2 + count.len)
           ELSE AndPickMatches(words, i + 1)

\* /pick\s+COUNT/gi on one text: the pickCounts of its matches, in order
RECURSIVE PickMatches(_, _)
PickMatches(words, i) ==
  IF i + 1 > Len(words) THEN <<>>
  ELSE LET count == CountAt(words, i + 1)
       IN  IF Lower(words[i]) = "pick" /\ count.len > 0
           THEN <<PickCountOf(count, 1)>> \o PickMatches(words, i + 1 + count.len)
           ELSE PickMatches(words, i + 1)

(***************************************************************************)
(* Positions in a section.  Element i starts at 3i and ends before 3i + 3; *)
(* its text (a paragraph's, or that of the items of a list) lies at 3i + 1.*)
(***************************************************************************)
StartPos(i) == 3 * i
EndPos(i) == 3 * i + 3
TextPos(i) == 3 * i + 1

\* the texts of the section in document order, each with its position
RECURSIVE TextsFrom(_, _)
TextsFrom(section, i) ==
  IF i > Len(section) THEN <<>>
  ELSE LET e == section[i]
           here == IF e.kind = "p" THEN <<[words |-> e.text, pos |-> TextPos(i)]>>
                   ELSE IF e.kind = "list"
                   THEN [k \in 1..Len(e.items) |->
                           [words |-> e.items[k], pos |-> TextPos(i)]]
                   ELSE <<>>
       IN  here \o TextsFrom(section, i + 1)

\* listsWithPos
RECURSIVE ListsFrom(_, _)
ListsFrom(section, i) ==
  IF i > Len(section) THEN <<>>
  ELSE (IF section[i].kind = "list"
        THEN <<[html |-> section[i].items, startPos |-> StartPos(i),
                endPos |-> EndPos(i)]>>
        ELSE <<>>) \o ListsFrom(section, i + 1)

\* andPickPositions
RECURSIVE AndPickPositions(_)
AndPickPositions(texts) ==
  IF texts = <<>> THEN <<>>
  ELSE LET found == AndPickMatches(Head(texts).words, 1)
       IN  [k \in 1..Len(found) |-> [pickCount |-> found[k], pos |-> Head(texts).pos]]
           \o AndPickPositions(Tail(texts))

\* includes
Includes(list, x) == \E k \in 1..Len(list) : list[k] = x

\* the value of /<\/(?:ul|ol)>\s*<p[^>]*>\s*or\s*<\/p>\s*<(?:ul|ol)/i.test(section)
hasOrBetweenLists(section) ==
  \E i \in 1..Len(section) - 2 :
    /\ section[i].kind = "list"
    /\ section[i + 1].kind = "p"
    /\ Len(section[i + 1].text) = 1
    /\ Lower(section[i + 1].text[1]) = "or"
    /\ section[i + 2].kind = "list"

\* itemText.toLowerCase().includes('any core courses') || ...('any special topics')
IsAnyItem(itemText) ==
  \E k \in 1..Len(itemText) - 2 :
    /\ Lower(itemText[k]) = "any"
    /\ \/ Lower(itemText[k + 1]) = "core" /\ Lower(itemText[k + 2]) = "courses"
       \/ Lower(itemText[k + 1]) = "special" /\ Lower(itemText[k + 2]) = "topics"

\* mutant: every recognized identifier is pushed, repeated or not
PushAlways(ids, courseId) ==
  IF courseId # <<Null>> THEN Append(ids, courseId) ELSE ids

\* if (courseId && !ids.includes(courseId)) ids.push(courseId)
PushNew(ids, courseId) ==
  IF courseId # <<Null>> /\ ~Includes(ids, courseId) THEN Append(ids, courseId) ELSE ids

\* the loop over the <li> of one list, appending to ids; skipAny is the
\* 'any core courses' filter of the "And, pick X" branch
RECURSIVE CollectItems(_, _, _)
CollectItems(ids, items, skipAny) ==
  IF items = <<>> THEN ids
  ELSE IF skipAny /\ IsAnyItem(Head(items))
  THEN CollectItems(ids, Tail(items), skipAny)
  ELSE CollectItems(PushNew(ids, extractCourseId(Head(items))), Tail(items), skipAny)

\* the identifiers of the items of the given lists, pooled in order
RECURSIVE CollectLists(_, _, _)
CollectLists(ids, lists, skipAny) ==
  IF lists = <<>> THEN ids
  ELSE CollectLists(CollectItems(ids, Head(lists).html, skipAny), Tail(lists), skipAny)

\* `Pick ${pickCount}` ; the name 'Core' carries no number
PickName(pickCount) == [word |-> "Pick", num |-> pickCount]
CoreName == [word |-> "Core", num |-> 0]

\* mutant: a group is pushed even when no identifier was collected
PushAnyGroup(name, pickCount, courseIds) ==
  <<[name |-> name, pickCount |-> pickCount, courseIds |-> courseIds]>>

\* if (courseIds.length > 0) coreCourses.push({ name, pickCount, courseIds })
PushGroup(name, pickCount, courseIds) ==
  IF Len(courseIds) > 0
  THEN <<[name |-> name, pickCount |-> pickCount, courseIds |-> courseIds]>>
  ELSE <<>>

(***************************************************************************)
(* Requirement group classifier: the core part of crawlSpecialization.     *)
(***************************************************************************)
\* the groups of the "And, pick X" markers from marker i on
RECURSIVE AndPickGroups(_, _, _, _)
AndPickGroups(andPickPositions, listsWithPos, sectionLength, i) ==
  IF i > Len(andPickPositions) THEN <<>>
  ELSE LET andPick == andPickPositions[i]
           nextAndPos == IF i + 1 <= Len(andPickPositions)
                         THEN andPickPositions[i + 1].pos
                         ELSE sectionLength
           After(list) == list.startPos > andPick.pos /\ list.startPos < nextAndPos
           pickXIds == CollectLists(<<>>, SelectSeq(listsWithPos, After), TRUE)
       IN  PushGroup(PickName(andPick.pickCount), andPick.pickCount, pickXIds)
           \o AndPickGroups(andPickPositions, listsWithPos, sectionLength, i + 1)

\* mutant: every list after the first marker goes to the first marker's group
SequentialFirstMarker(coreSection, listsWithPos, andPickPositions) ==
  LET firstAndPos == andPickPositions[1].pos
      Before(list) == list.endPos < firstAndPos
      pick1Ids == CollectLists(<<>>, SelectSeq(listsWithPos, Before), FALSE)
  IN  PushGroup(PickName(1), 1, pick1Ids)
      \o AndPickGroups(<<andPickPositions[1]>>, listsWithPos,
                       StartPos(Len(coreSection) + 1), 1)

\* branch 1: lists before the first marker are one "Pick 1" group, then one
\* group per marker
SequentialGroups(coreSection, listsWithPos, andPickPositions) ==
  LET firstAndPos == andPickPositions[1].pos
      Before(list) == list.endPos < firstAndPos
      pick1Ids == CollectLists(<<>>, SelectSeq(listsWithPos, Before), FALSE)
  IN  PushGroup(PickName(1), 1, pick1Ids)
      \o AndPickGroups(andPickPositions, listsWithPos,
                       StartPos(Len(coreSection) + 1), 1)

\* mutant: the lists joined by "or" give one group per list
OrGroupsPerList(listsWithPos) ==
  IF listsWithPos = <<>> THEN <<>>
  ELSE PushGroup(PickName(1), 1, CollectLists(<<>>, <<Head(listsWithPos)>>, FALSE))
       \o PushGroup(PickName(1), 1, CollectLists(<<>>, Tail(listsWithPos), FALSE))

\* branch 2: no marker but an "or" between lists: all lists are one "Pick 1" group
OrGroups(listsWithPos) ==
  PushGroup(PickName(1), 1, CollectLists(<<>>, listsWithPos, FALSE))

\* pickInstructions: the distinct counts of the "pick X" phrases, in order
RECURSIVE PickInstructions(_, _)
PickInstructions(texts, pickInstructions) ==
  IF texts = <<>> THEN pickInstructions
  ELSE LET found == PickMatches(Head(texts).words, 1)
           AddAll[k \in 0..Len(found)] ==
             IF k = 0 THEN pickInstructions
             ELSE IF Includes(AddAll[k - 1], found[k]) THEN AddAll[k - 1]
             ELSE Append(AddAll[k - 1], found[k])
       IN  PickInstructions(Tail(texts), AddAll[Len(found)])

\* mutant: the fallback group always requires all of its members
RequireAll(pickInstructions, allCoreIds) == Len(allCoreIds)

\* pickInstructions.length > 0 ? pickInstructions[0] : allCoreIds.length
FallbackPickCount(pickInstructions, allCoreIds) ==
  IF Len(pickInstructions) > 0 THEN pickInstructions[1] ELSE Len(allCoreIds)

\* branch 3: every <li> of the section in one group named 'Core'
FallbackGroups(coreSection, listsWithPos) ==
  LET pickInstructions == PickInstructions(TextsFrom(coreSection, 1), <<>>)
      allCoreIds == CollectLists(<<>>, listsWithPos, FALSE)
  IN  PushGroup(CoreName, FallbackPickCount(pickInstructions, allCoreIds), allCoreIds)

\* coreCourses, for a core section that was found
CoreGroups(coreSection) ==
  LET listsWithPos == ListsFrom(coreSection, 1)
      andPickPositions == AndPickPositions(TextsFrom(coreSection, 1))
  IN  IF Len(andPickPositions) > 0
      THEN SequentialGroups(coreSection, listsWithPos, andPickPositions)
      ELSE IF hasOrBetweenLists(coreSection) THEN OrGroups(listsWithPos)
      ELSE FallbackGroups(coreSection, listsWithPos)

\* itemText.toLowerCase().includes('pick ')
IncludesPick(itemText) ==
  \E k \in 1..Len(itemText) - 1 : Lower(itemText[k]) = "pick"

\* electiveCourseIds: the loop over the <li> of the electives section
RECURSIVE ElectiveIds(_, _)
ElectiveIds(ids, items) ==
  IF items = <<>> THEN ids
  ELSE IF IncludesPick(Head(items)) /\ extractCourseId(Head(items)) = <<Null>>
  THEN ElectiveIds(ids, Tail(items))
  ELSE ElectiveIds(PushNew(ids, extractCourseId(Head(items))), Tail(items))

\* the items of every list of a section, in document order
RECURSIVE AllItems(_)
AllItems(listsWithPos) ==
  IF listsWithPos = <<>> THEN <<>>
  ELSE Head(listsWithPos).html \o AllItems(Tail(listsWithPos))

\* mutant: without a core section the electives are not read either
crawlSpecializationCoreFirst(html, specInfo) ==
  LET coreSection == extractSectionContent(html, "Core Courses",
                                           <<"Electives", "Free Electives">>)
      electiveSection == extractSectionContent(html, "Electives", <<"Free Electives">>)
  IN  [specializationId |-> specInfo.id,
       name |-> specInfo.name,
       programId |-> "cs",
       coreCourses |-> IF Truthy(coreSection) THEN CoreGroups(coreSection.content)
                       ELSE <<>>,
       electiveCourseIds |->
         IF Truthy(coreSection) /\ Truthy(electiveSection)
         THEN ElectiveIds(<<>>, AllItems(ListsFrom(electiveSection.content, 1)))
         ELSE <<>>]

\* the Specialization parsed from a fetched page
crawlSpecialization(html, specInfo) ==
  LET coreSection == extractSectionContent(html, "Core Courses",
                                           <<"Electives", "Free Electives">>)
      electiveSection == extractSectionContent(html, "Electives", <<"Free Electives">>)
  IN  [specializationId |-> specInfo.id,
       name |-> specInfo.name,
       programId |-> "cs",
       coreCourses |-> IF Truthy(coreSection) THEN CoreGroups(coreSection.content)
                       ELSE <<>>,
       electiveCourseIds |->
         IF Truthy(electiveSection)
         THEN ElectiveIds(<<>>, AllItems(ListsFrom(electiveSection.content, 1)))
         ELSE <<>>]

\* SPECIALIZATION_URLS, its first two entries, in the order of Object.entries
SPECIALIZATION_URLS ==
  <<[urlPath |-> "/specialization-machine-learning",
     id |-> "cs:ml", name |-> "Machine Learning"],
    [urlPath |-> "/specialization-computing-systems",
     id |-> "cs:cs", name |-> "Computing Systems"]>>

\* mutant: the first page that throws ends the loop
RECURSIVE crawlUntilFailure(_, _)
crawlUntilFailure(fetched, k) ==
  IF k > Len(SPECIALIZATION_URLS) \/ ~fetched[k].ok THEN <<>>
  ELSE <<crawlSpecialization(fetched[k].html, SPECIALIZATION_URLS[k])>>
       \o crawlUntilFailure(fetched, k + 1)

\* the loop of crawlAllSpecializations from entry k on: fetched[k] is what
\* fetchPage gave for entry k, a page or a thrown error, which is caught
RECURSIVE crawlAllSpecializations(_, _)
crawlAllSpecializations(fetched, k) ==
  IF k > Len(SPECIALIZATION_URLS) THEN <<>>
  ELSE (IF fetched[k].ok
        THEN <<crawlSpecialization(fetched[k].html, SPECIALIZATION_URLS[k])>>
        ELSE <<>>) \o crawlAllSpecializations(fetched, k + 1)

(***************************************************************************)
(* The inputs the model draws from.                                        *)
(***************************************************************************)
\* list items of the current-courses page
CoursePageItems ==
  {[text |-> <<"CS", "6601", "AI">>, href |-> Null, star |-> FALSE],
   [text |-> <<"CS", "6601", "Artificial", "Intelligence">>, href |-> "/ai",
    star |-> TRUE],
   [text |-> <<"CS", "8803", "O08", "Compilers">>,
    href |-> "https://omscs.gatech.edu/compilers", star |-> FALSE],
   [text |-> <<"Apply", "now">>, href |-> "/apply", star |-> FALSE]}

CourseKeys == {<<"CS", "6601">>, <<"CS", "8803", "O08">>}

\* a record of courses.json as a curator left it
PersistedCourse(courseId, curated) ==
  [courseId |-> courseId,
   name |-> <<"Old", "Title">>,
   departmentId |-> "CSE",
   courseNumber |-> <<"6505">>,
   url |-> "https://omscs.gatech.edu/old",
   isFoundational |-> curated,
   aliases |-> IF curated THEN << <<"CS", "7641">> >> ELSE <<>>,
   isDeprecated |-> curated]

\* the contents courses.json may have before the first run: none, or some
\* of the courses
PersistedCourses ==
  {AbsentFile, BrokenFile([id \in {<<"CS", "6601">>} |-> PersistedCourse(id, TRUE)])}
  \cup
  UNION {{JsonFile([id \in keys |-> PersistedCourse(id, curated[id])]) :
            curated \in [keys -> BOOLEAN]} : keys \in SUBSET CourseKeys}

\* texts of list items of a specialization page
ItemA == <<"CS", "6515", "Algorithms">>
ItemB == <<"CS", "8803", "O08", "Compilers">>
ItemX == <<"Any", "Core", "Courses", "in", "excess">>
ItemY == <<"CS", "6515", "or", "any", "special", "topics">>

\* two specialization pages
PageA ==
  <<Heading(3, "Core Courses", TRUE), Para(<<"Pick", "one">>), List(<<ItemA, ItemB>>),
    Heading(3, "Electives", TRUE), List(<<ItemB, ItemX>>)>>
PageB ==
  <<Heading(3, "Core Courses", TRUE), List(<<ItemB>>)>>

\* what fetchPage gives for the two specialization pages
Failed == [ok |-> FALSE, html |-> <<>>]
Fetched(html) == [ok |-> TRUE, html |-> html]
FetchedPages ==
  {<<ml, cs>> : ml \in {Failed, Fetched(PageA)}, cs \in {Failed, Fetched(PageB)}}

\* an entry of specializations.json written by an earlier version of the site
PersistedSpec(id) ==
  [specializationId |-> id, name |-> "Old name", programId |-> "cs",
   coreCourses |-> <<>>, electiveCourseIds |-> << <<"CS", "6601">> >>]

PersistedSpecs ==
  {AbsentFile,
   BrokenFile([id \in {"cs:ii"} |-> PersistedSpec(id)]),
   JsonFile([id \in {"cs:ii"} |-> PersistedSpec(id)]),
   JsonFile([id \in {"cs:ml", "cs:ii"} |-> PersistedSpec(id)])}

(***************************************************************************)
(* State.                                                                  *)
(***************************************************************************)
VARIABLES
  pc,                \* the statement the program is at
  coursesFile,       \* static/courses.json
  specsFile,         \* static/specializations.json
  existingCourses,   \* main: existingCourses
  existingSpecs,     \* main: existingSpecs
  crawledCourses,    \* main: crawledCourses
  courses,           \* main: courses
  newCourses,        \* main: newCourses
  crawledSpecs,      \* main: crawledSpecs
  specializations,   \* main: specializations
  fetchResults,      \* what fetchPage gave for each specialization page
  isDryRun,          \* main: isDryRun
  staticDir,         \* whether the directory static/ exists
  html,              \* extractSectionContent: html
  sectionName,       \* extractSectionContent: sectionName
  section,           \* extractSectionContent: its result
  specialization     \* crawlSpecialization: its result

\* the entity recognizer called on one mention
VARIABLES
  mentionText,       \* parseCourseText, extractCourseId: text
  parsedCourse,      \* the result of parseCourseText
  parsedId           \* the result of extractCourseId

\* the text normalizer called on one text, and on its own result
VARIABLES
  rawText,           \* decodeHtmlEntities: text
  decoded,           \* decodeHtmlEntities(rawText)
  decodedAgain       \* decodeHtmlEntities(decoded)

\* the OSCAR parser called on one list of sections
VARIABLES
  bannerSections,    \* parseSectionsToCourses: sections
  courseMap          \* parseSectionsToCourses: courseMap

\* BannerClient.fetchAllCourses and the searchCourses call it is in
VARIABLES
  serverTotal,       \* the totalCount the server reports
  pageOffset,        \* fetchAllCourses: pageOffset
  totalCount,        \* fetchAllCourses: totalCount
  allSections,       \* fetchAllCourses: allSections
  attempt,           \* searchCourses: attempt
  lastError,         \* searchCourses: lastError
  requests,          \* the fetch calls made, in order
  waits,             \* the sleep calls made, in order
  fetchTermSections  \* fetchTerm: allSections, what fetchAllCourses returned

\* the OSCAR crawler: main of src/oscar/crawler.ts
VARIABLES
  oscarArgs,         \* main: terms, dryRun, skipCatalog
  outputDir,         \* whether the output directory exists
  termFiles,         \* the term files of the output directory
  catalogFile,       \* catalog.json
  catalog,           \* main: catalog
  termsLeft,         \* main: the terms the loop has yet to fetch
  termsSeen          \* what fetchTerm returned, term by term

mainVars ==
  <<coursesFile, specsFile, existingCourses, existingSpecs, crawledCourses,
    courses, newCourses, crawledSpecs, specializations, fetchResults,
    isDryRun, staticDir>>
pageVars == <<html, sectionName, section, specialization>>
recognizerVars == <<mentionText, parsedCourse, parsedId>>
normalizerVars == <<rawText, decoded, decodedAgain>>
parserVars == <<bannerSections, courseMap>>
bannerVars ==
  <<serverTotal, pageOffset, totalCount, allSections, attempt, lastError,
    requests, waits, fetchTermSections>>
oscarVars ==
  <<oscarArgs, outputDir, termFiles, catalogFile, catalog, termsLeft, termsSeen>>
\* the variables outside the catalog crawler
oscarSideVars == <<parserVars, bannerVars, oscarVars>>
unitVars == <<recognizerVars, normalizerVars>>
vars == <<pc, mainVars, pageVars, unitVars, oscarSideVars>>

\* the locals of main before it has run
MainLocalsInit ==
  /\ existingCourses = NullMap
  /\ existingSpecs = NullMap
  /\ crawledCourses = <<>>
  /\ courses = EmptyMap
  /\ newCourses = <<>>
  /\ crawledSpecs = <<>>
  /\ specializations = EmptyMap
  /\ fetchResults = <<>>
  /\ isDryRun = FALSE

\* no directory static/ and no file in it
NoStaticFiles ==
  /\ staticDir = FALSE
  /\ coursesFile = AbsentFile
  /\ specsFile = AbsentFile

NoSpecialization ==
  [specializationId |-> "", name |-> "", programId |-> "",
   coreCourses |-> <<>>, electiveCourseIds |-> <<>>]

PageInit ==
  /\ html = <<>>
  /\ sectionName = ""
  /\ section = NullSection
  /\ specialization = NoSpecialization

\* the components that are not called
RecognizerIdle ==
  /\ mentionText = <<>>
  /\ parsedCourse = [found |-> FALSE]
  /\ parsedId = <<Null>>

NormalizerIdle ==
  /\ rawText = <<>>
  /\ decoded = <<>>
  /\ decodedAgain = <<>>

ParserIdle ==
  /\ bannerSections = <<>>
  /\ courseMap = EmptyMap

BannerIdle ==
  /\ serverTotal = 0
  /\ pageOffset = 0
  /\ totalCount = 0
  /\ allSections = <<>>
  /\ attempt = 0
  /\ lastError = Null
  /\ requests = <<>>
  /\ waits = <<>>
  /\ fetchTermSections = [returned |-> FALSE, sections |-> <<>>]

OscarIdle ==
  /\ oscarArgs = [terms |-> <<>>, dryRun |-> FALSE, skipCatalog |-> FALSE]
  /\ outputDir = FALSE
  /\ termFiles = EmptyMap
  /\ catalogFile = AbsentFile
  /\ catalog = NullMap
  /\ termsLeft = <<>>
  /\ termsSeen = EmptyMap

UnitsIdle == RecognizerIdle /\ NormalizerIdle
OscarSideIdle == ParserIdle /\ BannerIdle /\ OscarIdle

(***************************************************************************)
(* The crawler run after run: main.                                        *)
(***************************************************************************)
InitMain ==
  /\ pc = "start"
  /\ coursesFile \in PersistedCourses
  /\ specsFile \in PersistedSpecs
  /\ staticDir \in {d \in BOOLEAN : (coursesFile.present \/ specsFile.present) => d}
  /\ MainLocalsInit
  /\ PageInit
  /\ UnitsIdle
  /\ OscarSideIdle

\* the start of main: --dry-run is looked up in the arguments, the
\* directory is made unless it is given, and both files are loaded
Load ==
  /\ pc = "start"
  /\ \E dryRun \in BOOLEAN :
       /\ isDryRun' = dryRun
       /\ staticDir' = IF dryRun THEN staticDir ELSE TRUE
  /\ existingCourses' = loadExistingCourses(coursesFile)
  /\ existingSpecs' = loadExistingSpecializations(specsFile)
  /\ pc' = "loaded"
  /\ UNCHANGED <<coursesFile, specsFile, crawledCourses, courses, newCourses,
                 crawledSpecs, specializations, fetchResults, pageVars,
                 unitVars, oscarSideVars>>

\* crawlCurrentCourses, then mergeCourses; the merge writes into the object
\* existingCourses refers to when there is one
CrawlAndMergeCourses ==
  /\ pc = "loaded"
  /\ \E items \in SeqsUpTo(CoursePageItems, MaxCrawl) :
       LET crawled == crawlCurrentCourses(items)
           merged == mergeCourses(crawled, existingCourses)
       IN  /\ crawledCourses' = crawled
           /\ courses' = merged.courses
           /\ newCourses' = merged.newCourses
           /\ existingCourses' = IF existingCourses.present
                                 THEN SomeMap(merged.courses) ELSE NullMap
  /\ pc' = "mergedCourses"
  /\ UNCHANGED <<coursesFile, specsFile, existingSpecs, crawledSpecs,
                 specializations, fetchResults, isDryRun, staticDir, pageVars,
                 unitVars, oscarSideVars>>

\* crawlCurrentCourses when fetchPage throws (no response, or a status that
\* is not ok): nothing catches it and the promise of main is rejected
CrawlCoursesThrows ==
  /\ pc = "loaded"
  /\ pc' = "failed"
  /\ UNCHANGED <<mainVars, pageVars, unitVars, oscarSideVars>>

\* main().catch: the error is logged and the process exits with code 1;
\* nothing was written
Exit ==
  /\ pc = "failed"
  /\ pc' = "start"
  /\ existingCourses' = NullMap
  /\ existingSpecs' = NullMap
  /\ UNCHANGED <<coursesFile, specsFile, crawledCourses, courses, newCourses,
                 crawledSpecs, specializations, fetchResults, isDryRun,
                 staticDir, pageVars, unitVars, oscarSideVars>>

\* crawlAllSpecializations, then mergeSpecializations
CrawlAndMergeSpecs ==
  /\ pc = "mergedCourses"
  /\ \E fetched \in FetchedPages :
       LET crawled == crawlAllSpecializations(fetched, 1)
           merged == mergeSpecializations(crawled, existingSpecs)
       IN  /\ fetchResults' = fetched
           /\ crawledSpecs' = crawled
           /\ specializations' = merged
           /\ existingSpecs' = IF existingSpecs.present
                               THEN SomeMap(merged) ELSE NullMap
  /\ pc' = "mergedSpecs"
  /\ UNCHANGED <<coursesFile, specsFile, existingCourses, crawledCourses, courses,
                 newCourses, isDryRun, staticDir, pageVars, unitVars,
                 oscarSideVars>>

\* the end of main: both files are written unless --dry-run was given; the
\* next run starts with fresh locals
Write ==
  /\ pc = "mergedSpecs"
  /\ coursesFile' = IF isDryRun THEN coursesFile ELSE JsonFile(courses)
  /\ specsFile' = IF isDryRun THEN specsFile ELSE JsonFile(specializations)
  /\ pc' = "start"
  /\ existingCourses' = NullMap
  /\ existingSpecs' = NullMap
  /\ crawledCourses' = <<>>
  /\ courses' = EmptyMap
  /\ newCourses' = <<>>
  /\ crawledSpecs' = <<>>
  /\ specializations' = EmptyMap
  /\ fetchResults' = <<>>
  /\ UNCHANGED <<isDryRun, staticDir, pageVars, unitVars, oscarSideVars>>

NextMain ==
  \/ Load
  \/ CrawlAndMergeCourses
  \/ CrawlCoursesThrows
  \/ CrawlAndMergeSpecs
  \/ Write
  \/ Exit

SpecMain == InitMain /\ [][NextMain]_vars

(***************************************************************************)
(* Properties of the reconciler.  Until main writes, the files hold the    *)
(* registries as they were before the merge.                               *)
(***************************************************************************)
AfterMergeCourses == pc \in {"mergedCourses", "mergedSpecs"}
AfterMergeSpecs == pc = "mergedSpecs"

PriorCourses == IF coursesFile.present /\ coursesFile.parses THEN coursesFile.map ELSE EmptyMap
PriorSpecs == IF specsFile.present /\ specsFile.parses THEN specsFile.map ELSE EmptyMap

\* the identifiers observed by the crawl
CrawledIds == {crawledCourses[k].courseId : k \in 1..Len(crawledCourses)}
CrawledSpecIds == {crawledSpecs[k].specializationId : k \in 1..Len(crawledSpecs)}

\* the last observation of identifier id in the crawl
LastObservation(id) ==
  LET at == {k \in 1..Len(crawledCourses) : crawledCourses[k].courseId = id}
  IN  crawledCourses[CHOOSE k \in at : \A j \in at : j <= k]

\* the index of the first observation of identifier id in the crawl
FirstObserved(id) ==
  LET at == {k \in 1..Len(crawledCourses) : crawledCourses[k].courseId = id}
  IN  CHOOSE k \in at : \A j \in at : k <= j

\* C1: after mergeCourses, every course keyed in the prior registry has the
\* aliases, isDeprecated and isFoundational of its prior record, whatever the
\* crawl carries for them.
C1_CuratorFieldsPreserved ==
  AfterMergeCourses =>
    \A id \in DOMAIN PriorCourses :
      /\ id \in DOMAIN courses
      /\ courses[id].aliases = PriorCourses[id].aliases
      /\ courses[id].isDeprecated = PriorCourses[id].isDeprecated
      /\ courses[id].isFoundational = PriorCourses[id].isFoundational

\* a deprecated, aliased, foundational course was crawled without any of the three
C1_Witness ==
  /\ AfterMergeCourses
  /\ \E id \in DOMAIN PriorCourses \cap CrawledIds :
       /\ PriorCourses[id].isDeprecated
       /\ PriorCourses[id].isFoundational
       /\ PriorCourses[id].aliases # <<>>
       /\ ~LastObservation(id).isDeprecated
       /\ ~LastObservation(id).isFoundational
       /\ LastObservation(id).aliases = <<>>
       /\ courses[id].isDeprecated

\* C2: after mergeCourses, every course that occurs in the crawl has the name,
\* url, departmentId and courseNumber of its last observation in the crawl,
\* whatever the prior registry held.
C2_DescriptiveFieldsRefreshed ==
  AfterMergeCourses =>
    \A id \in CrawledIds :
      /\ id \in DOMAIN courses
      /\ courses[id].name = LastObservation(id).name
      /\ courses[id].url = LastObservation(id).url
      /\ courses[id].departmentId = LastObservation(id).departmentId
      /\ courses[id].courseNumber = LastObservation(id).courseNumber

\* a persisted course was observed twice, under two names that both differ
\* from the persisted one
C2_Witness ==
  /\ AfterMergeCourses
  /\ Len(crawledCourses) = 2
  /\ crawledCourses[1].courseId = crawledCourses[2].courseId
  /\ crawledCourses[1].name # crawledCourses[2].name
  /\ crawledCourses[1].courseId \in DOMAIN PriorCourses
  /\ PriorCourses[crawledCourses[1].courseId].name # crawledCourses[2].name
  /\ PriorCourses[crawledCourses[1].courseId].departmentId
       # crawledCourses[2].departmentId
  /\ courses[crawledCourses[1].courseId].name = crawledCourses[2].name

\* C3: merging the same extraction a second time, into the registries the
\* first merge produced, gives the same registries again and reports no new
\* course.
C3_MergeIdempotent ==
  AfterMergeSpecs =>
    LET again == mergeCourses(crawledCourses, SomeMap(courses))
    IN  /\ again.courses = courses
        /\ again.newCourses = <<>>
        /\ mergeSpecializations(crawledSpecs, SomeMap(specializations))
             = specializations

\* the first merge added a course seen twice under two names, changed a
\* persisted one, and replaced a specialization
C3_Witness ==
  /\ AfterMergeSpecs
  /\ newCourses # <<>>
  /\ Len(crawledCourses) = 2
  /\ crawledCourses[1].courseId = crawledCourses[2].courseId
  /\ crawledCourses[1] # crawledCourses[2]
  /\ crawledSpecs # <<>>
  /\ specializations # PriorSpecs

\* C4: newCourses holds exactly the identifiers of the crawl that are no key
\* of the prior registry, each once, in the order they were first observed.
C4_NewCoursesExact ==
  AfterMergeCourses =>
    /\ {newCourses[i] : i \in 1..Len(newCourses)} = CrawledIds \ DOMAIN PriorCourses
    /\ \A i, j \in 1..Len(newCourses) :
         i < j => FirstObserved(newCourses[i]) < FirstObserved(newCourses[j])

\* with no prior file, a course listed twice is reported once
C4_Witness ==
  /\ AfterMergeCourses
  /\ ~coursesFile.present
  /\ Len(crawledCourses) = 2
  /\ crawledCourses[1].courseId = crawledCourses[2].courseId
  /\ Len(newCourses) = 1

\* C5: mergeCourses deletes nothing: every key of the registry before the
\* merge is a key after it, and a record whose identifier the crawl does not
\* contain is unchanged in every field.
C5_CoursesNeverDeleted ==
  AfterMergeCourses =>
    \A id \in DOMAIN PriorCourses :
      /\ id \in DOMAIN courses
      /\ id \notin CrawledIds => courses[id] = PriorCourses[id]

\* a persisted course is missing from a crawl that found another course
C5_Witness ==
  /\ AfterMergeCourses
  /\ crawledCourses # <<>>
  /\ \E id \in DOMAIN PriorCourses : id \notin CrawledIds /\ id \in DOMAIN courses

\* C6: after mergeSpecializations the entry of every crawled specialization
\* is the crawled value, and every prior entry whose identifier was not
\* crawled (its page failed, or it is not configured) is unchanged; no other
\* entry exists.
C6_SpecializationsReplaced ==
  AfterMergeSpecs =>
    /\ DOMAIN specializations = DOMAIN PriorSpecs \cup CrawledSpecIds
    /\ \A k \in 1..Len(crawledSpecs) :
         specializations[crawledSpecs[k].specializationId] = crawledSpecs[k]
    /\ \A id \in DOMAIN PriorSpecs \ CrawledSpecIds :
         specializations[id] = PriorSpecs[id]

\* one persisted specialization was crawled and differs, one failed to be
\* fetched, and one is not configured
C6_Witness ==
  /\ AfterMergeSpecs
  /\ \E k \in 1..Len(crawledSpecs) :
       /\ crawledSpecs[k].specializationId \in DOMAIN PriorSpecs
       /\ crawledSpecs[k] # PriorSpecs[crawledSpecs[k].specializationId]
  /\ "cs:ii" \in DOMAIN PriorSpecs
  /\ "cs:cs" \notin CrawledSpecIds

(***************************************************************************)
(* The section segmenter on its own: the two calls crawlSpecialization     *)
(* makes on one fetched page.                                              *)
(***************************************************************************)
\* the elements a page is made of
DocElements ==
  {Heading(3, label, qual) :
     label \in {"Core Courses", "Electives", "Free Electives", "Admissions"},
     qual \in BOOLEAN}
  \cup {Heading(4, "Electives", TRUE), Heading(2, "Electives", TRUE),
        Para(<<"Choose", "wisely">>), List(<<ItemA>>)}

InitSegment ==
  /\ pc = "fetched"
  /\ html \in SeqsUpTo(DocElements, MaxDoc)
  /\ sectionName = ""
  /\ section = NullSection
  /\ specialization = NoSpecialization
  /\ NoStaticFiles
  /\ MainLocalsInit
  /\ UnitsIdle
  /\ OscarSideIdle

\* extractSectionContent(html, 'Core Courses', ['Electives', 'Free Electives'])
ExtractCore ==
  /\ pc = "fetched"
  /\ sectionName' = "Core Courses"
  /\ section' = extractSectionContent(html, "Core Courses",
                                      <<"Electives", "Free Electives">>)
  /\ pc' = "core"
  /\ UNCHANGED <<mainVars, html, specialization, unitVars, oscarSideVars>>

\* extractSectionContent(html, 'Electives', ['Free Electives'])
ExtractElectives ==
  /\ pc = "core"
  /\ sectionName' = "Electives"
  /\ section' = extractSectionContent(html, "Electives", <<"Free Electives">>)
  /\ pc' = "electives"
  /\ UNCHANGED <<mainVars, html, specialization, unitVars, oscarSideVars>>

NextSegment == ExtractCore \/ ExtractElectives

SpecSegment == InitSegment /\ [][NextSegment]_vars

\* the next-section labels of the call that produced section
NextLabels ==
  IF sectionName = "Core Courses" THEN {"Electives", "Free Electives"}
  ELSE {"Free Electives"}

Extracted == pc \in {"core", "electives"}

\* an h3 or h4 heading
IsH34(e) == e.kind = "h" /\ e.level \in {3, 4}

\* the least element of a non-empty set of indices
Least(S) == CHOOSE i \in S : \A j \in S : i <= j

\* the fragment after heading h: up to the earliest of a heading with a
\* next-section label, any h3/h4 tag, or the end of the document
FragmentAfter(h) ==
  LET named == {j \in h + 1..Len(html) : IsH34(html[j]) /\ html[j].label \in NextLabels}
      any == {j \in h + 1..Len(html) : IsH34(html[j])}
  IN  SubSeq(html, h + 1, Least(named \cup any \cup {Len(html) + 1}) - 1)

\* the headings the section header pattern matches: an h3/h4 whose text is
\* the label followed by a parenthesized qualifier
MatchingHeadings ==
  {i \in 1..Len(html) : IsH34(html[i]) /\ html[i].label = sectionName /\ html[i].qual}

\* the h3/h4 headings whose text is the label, with a qualifier or without
LabelledHeadings ==
  {i \in 1..Len(html) : IsH34(html[i]) /\ html[i].label = sectionName}

C8_QualifierOptional ==
  (Extracted /\ LabelledHeadings # {}) =>
    /\ section.found
    /\ section.content = FragmentAfter(Least(LabelledHeadings))

(***************************************************************************)
(* The classifier on its own: crawlSpecialization on a page that holds a   *)
(* Core Courses heading and a core fragment.                               *)
(***************************************************************************)
\* paragraphs of a core fragment
FragmentParas ==
  {Para(<<"or">>), Para(<<"Pick", "two">>), Para(<<"Pick", "three">>),
   Para(<<"And,", "pick", "two">>), Para(<<"Choose", "wisely">>)}

FragmentItems == {ItemA, ItemB, ItemX}

\* the elements that count for w: a paragraph or an empty list counts 1, a
\* list counts 1 and 1 for each item
ElementsOfSize(w) ==
  IF w = 1 THEN FragmentParas \cup {List(<<>>)}
  ELSE {List(items) : items \in [1..w - 1 -> FragmentItems]}

\* the fragments that count for at most n
RECURSIVE Fragments(_)
Fragments(n) ==
  {<<>>} \cup
  UNION {{<<e>> \o rest : e \in ElementsOfSize(w), rest \in Fragments(n - w)} :
           w \in 1..n}

CoreHeading == Heading(3, "Core Courses", TRUE)

InitClassify ==
  /\ pc = "fetched"
  /\ html \in {<<CoreHeading>> \o fragment : fragment \in Fragments(MaxSize)}
  /\ sectionName = ""
  /\ section = NullSection
  /\ specialization = NoSpecialization
  /\ NoStaticFiles
  /\ MainLocalsInit
  /\ UnitsIdle
  /\ OscarSideIdle

\* crawlSpecialization, after fetchPage returned html
CrawlSpecialization ==
  /\ pc = "fetched"
  /\ specialization' = crawlSpecialization(html, SPECIALIZATION_URLS[1])
  /\ pc' = "crawled"
  /\ UNCHANGED <<mainVars, html, sectionName, section, unitVars, oscarSideVars>>

NextClassify == CrawlSpecialization

SpecClassify == InitClassify /\ [][NextClassify]_vars

Crawled == pc = "crawled"

\* the core fragment of the page
CoreFragment == SubSeq(html, 2, Len(html))

\* the lists of the core fragment, as indices
ListIndices == {i \in 1..Len(CoreFragment) : CoreFragment[i].kind = "list"}

\* the texts of the fragment: its paragraphs and the items of its lists
FragmentTexts ==
  {CoreFragment[i].text : i \in {j \in 1..Len(CoreFragment) : CoreFragment[j].kind = "p"}}
  \cup UNION {{CoreFragment[i].items[k] : k \in 1..Len(CoreFragment[i].items)} :
                i \in ListIndices}

\* no text of the fragment holds an "and, pick N" marker
NoAndPickMarker == \A text \in FragmentTexts : AndPickMatches(text, 1) = <<>>

\* a paragraph holding only "or" stands between two lists
OrSeparatesLists ==
  \E i \in 1..Len(CoreFragment) - 2 :
    /\ CoreFragment[i].kind = "list"
    /\ CoreFragment[i + 1] \in {Para(<<"or">>), Para(<<"Or">>)}
    /\ CoreFragment[i + 2].kind = "list"

\* s without its repeated elements, the first occurrence of each kept
RECURSIVE FirstOccurrences(_)
FirstOccurrences(s) ==
  IF s = <<>> THEN <<>>
  ELSE LET init == FirstOccurrences(SubSeq(s, 1, Len(s) - 1))
           last == s[Len(s)]
       IN  IF \E k \in 1..Len(init) : init[k] = last THEN init ELSE Append(init, last)

\* the identifiers recognized in a sequence of items, in order
RECURSIVE RecognizedIds(_)
RecognizedIds(items) ==
  IF items = <<>> THEN <<>>
  ELSE (IF extractCourseId(Head(items)) = <<Null>> THEN <<>>
        ELSE <<extractCourseId(Head(items))>>) \o RecognizedIds(Tail(items))

\* the items of the lists of the fragment from element i on, in document order
RECURSIVE ItemsFrom(_)
ItemsFrom(i) ==
  IF i > Len(CoreFragment) THEN <<>>
  ELSE (IF CoreFragment[i].kind = "list" THEN CoreFragment[i].items ELSE <<>>)
       \o ItemsFrom(i + 1)

\* the identifiers of all lists of the fragment, deduplicated, in document order
UnionOfLists == FirstOccurrences(RecognizedIds(ItemsFrom(1)))

OrJoined == Crawled /\ NoAndPickMarker /\ OrSeparatesLists

\* C9 as claimed: or-joined lists without an "and, pick N" marker give
\* exactly one group, "Pick 1" with pickCount 1, holding the union of the
\* identifiers of all lists, deduplicated, in document order.
C9_OrJoinedOneGroup ==
  OrJoined =>
    specialization.coreCourses =
      <<[name |-> PickName(1), pickCount |-> 1, courseIds |-> UnionOfLists]>>

\* C9 as amended: the one "Pick 1" group is produced when the lists hold an
\* identifier, and no group at all when they hold none.
C9_OrJoinedGroup ==
  OrJoined =>
    specialization.coreCourses =
      IF UnionOfLists = <<>> THEN <<>>
      ELSE <<[name |-> PickName(1), pickCount |-> 1, courseIds |-> UnionOfLists]>>

\* two lists joined by "or" hold two different courses, pooled in one group
C9_Witness ==
  /\ OrJoined
  /\ Len(UnionOfLists) = 2
  /\ Len(specialization.coreCourses) = 1
  /\ specialization.coreCourses[1].courseIds = UnionOfLists

\* the fragment is a "pick N" line, N spelled out, followed by one list
PickLineThenList ==
  /\ Len(CoreFragment) = 2
  /\ CoreFragment[1].kind = "p"
  /\ Len(CoreFragment[1].text) = 2
  /\ Lower(CoreFragment[1].text[1]) = "pick"
  /\ CoreFragment[1].text[2] \in CountWords
  /\ CoreFragment[2].kind = "list"

\* the N of the "pick N" line
SpelledCount == wordToNum(CoreFragment[1].text[2])

\* C10 as claimed: a "pick N" line followed by one list gives exactly one
\* group, with pickCount N and the recognized identifiers of the list as
\* members.
C10_PickLineOneGroup ==
  (Crawled /\ PickLineThenList) =>
    /\ Len(specialization.coreCourses) = 1
    /\ specialization.coreCourses[1].pickCount = SpelledCount
    /\ specialization.coreCourses[1].courseIds = UnionOfLists

\* C10 as amended: the group with pickCount N and the recognized identifiers
\* is produced when the list holds a recognizable item, and no group at all
\* when it holds none.
C10_PickLineGroup ==
  (Crawled /\ PickLineThenList) =>
    IF UnionOfLists = <<>> THEN specialization.coreCourses = <<>>
    ELSE /\ Len(specialization.coreCourses) = 1
         /\ specialization.coreCourses[1].pickCount = SpelledCount
         /\ specialization.coreCourses[1].courseIds = UnionOfLists

\* "Pick two" and a list of three items, one of them no course: two members
C10_Witness ==
  /\ Crawled
  /\ PickLineThenList
  /\ Len(CoreFragment[2].items) = 3
  /\ Len(UnionOfLists) = 2
  /\ Len(specialization.coreCourses) = 1
  /\ specialization.coreCourses[1].pickCount = 2
  /\ Len(specialization.coreCourses[1].courseIds) = 2

(***************************************************************************)
(* The sequential pattern: crawlSpecialization on a page whose core        *)
(* fragment is made of "and, pick N" paragraphs, "or" paragraphs and lists.*)
(***************************************************************************)
SequentialElements ==
  {Para(<<"And,", "pick", "two">>), Para(<<"and", "pick", "three">>), Para(<<"or">>)}
  \cup {List(<<item>>) : item \in {ItemA, ItemB, ItemX, ItemY}}

InitSequential ==
  /\ pc = "fetched"
  /\ html \in {<<CoreHeading>> \o fragment :
                 fragment \in SeqsUpTo(SequentialElements, MaxSize)}
  /\ sectionName = ""
  /\ section = NullSection
  /\ specialization = NoSpecialization
  /\ NoStaticFiles
  /\ MainLocalsInit
  /\ UnitsIdle
  /\ OscarSideIdle

SpecSequential == InitSequential /\ [][NextClassify]_vars

\* the paragraphs of the fragment that hold an "and, pick N" marker, as
\* indices in document order
MarkerIndices ==
  {i \in 1..Len(CoreFragment) :
     CoreFragment[i].kind = "p" /\ AndPickMatches(CoreFragment[i].text, 1) # <<>>}

\* the k-th marker of the fragment
RECURSIVE MarkerAt(_)
MarkerAt(k) ==
  IF k = 1 THEN Least(MarkerIndices)
  ELSE Least({i \in MarkerIndices : i > MarkerAt(k - 1)})

\* where the range of the k-th marker ends: the next marker, or the end
RangeEnd(k) ==
  IF k < Cardinality(MarkerIndices) THEN MarkerAt(k + 1) ELSE Len(CoreFragment) + 1

\* the N the k-th marker spells
MarkerCount(k) == wordToNum(CoreFragment[MarkerAt(k)].text[3])

\* the items of the lists among elements lo..hi - 1, in document order
RECURSIVE ItemsBetween(_, _)
ItemsBetween(lo, hi) ==
  IF lo >= hi THEN <<>>
  ELSE (IF CoreFragment[lo].kind = "list" THEN CoreFragment[lo].items ELSE <<>>)
       \o ItemsBetween(lo + 1, hi)

HasListBetween(lo, hi) == \E i \in ListIndices : lo <= i /\ i < hi

\* an item that reads "any core courses" or "any special topics"
NotAnyItem(item) == ~IsAnyItem(item)

\* the members of the leading group and of the group of the k-th marker
LeadingIds == FirstOccurrences(RecognizedIds(ItemsBetween(1, MarkerAt(1))))
MarkerIds(k) ==
  FirstOccurrences(RecognizedIds(
    SelectSeq(ItemsBetween(MarkerAt(k) + 1, RangeEnd(k)), NotAnyItem)))

\* the names and counts of the groups the claim describes, from marker k on:
\* one group per marker that has a list in its range
RECURSIVE ClaimedMarkerShapes(_)
ClaimedMarkerShapes(k) ==
  IF k > Cardinality(MarkerIndices) THEN <<>>
  ELSE (IF HasListBetween(MarkerAt(k) + 1, RangeEnd(k))
        THEN <<[name |-> PickName(MarkerCount(k)), pickCount |-> MarkerCount(k)]>>
        ELSE <<>>) \o ClaimedMarkerShapes(k + 1)

\* the groups of the markers from marker k on: one per marker whose range
\* holds a recognizable course
RECURSIVE ExpectedMarkerGroups(_)
ExpectedMarkerGroups(k) ==
  IF k > Cardinality(MarkerIndices) THEN <<>>
  ELSE (IF MarkerIds(k) # <<>>
        THEN <<[name |-> PickName(MarkerCount(k)), pickCount |-> MarkerCount(k),
                courseIds |-> MarkerIds(k)]>>
        ELSE <<>>) \o ExpectedMarkerGroups(k + 1)

Sequential == Crawled /\ MarkerIndices # {}

\* C11 as claimed: with at least one "and, pick N" marker, the lists before
\* the first marker are one group "Pick 1" emitted first, and the lists in
\* the range of each marker are one group "Pick N" with pickCount N, in
\* marker order.
C11_SequentialOneGroupPerRange ==
  Sequential =>
    [k \in 1..Len(specialization.coreCourses) |->
       [name |-> specialization.coreCourses[k].name,
        pickCount |-> specialization.coreCourses[k].pickCount]]
    = (IF HasListBetween(1, MarkerAt(1))
       THEN <<[name |-> PickName(1), pickCount |-> 1]>> ELSE <<>>)
      \o ClaimedMarkerShapes(1)

\* C11 as amended: the leading group and the group of each marker are
\* emitted in that order, each with exactly the identifiers of the lists of
\* its own range, and a range that holds no recognizable course gives no
\* group.
C11_SequentialGroups ==
  Sequential =>
    specialization.coreCourses =
      (IF LeadingIds # <<>>
       THEN <<[name |-> PickName(1), pickCount |-> 1, courseIds |-> LeadingIds]>>
       ELSE <<>>)
      \o ExpectedMarkerGroups(1)

\* a list, then "pick two" and "pick three" markers each followed by its
\* own list: three groups
C11_Witness ==
  /\ Sequential
  /\ Cardinality(MarkerIndices) = 2
  /\ MarkerCount(1) # MarkerCount(2)
  /\ Len(specialization.coreCourses) = 3
  /\ specialization.coreCourses[1].pickCount = 1
  /\ specialization.coreCourses[2].pickCount = MarkerCount(1)
  /\ specialization.coreCourses[3].pickCount = MarkerCount(2)

(***************************************************************************)
(* The fallback pattern: no "and, pick N" marker, no "or" between lists.   *)
(***************************************************************************)
\* the counts of the "pick N" phrases of the fragment
PhraseCounts ==
  UNION {{PickMatches(text, 1)[k] : k \in 1..Len(PickMatches(text, 1))} :
           text \in FragmentTexts}

Fallback == Crawled /\ NoAndPickMarker /\ ~OrSeparatesLists

\* C12: in the fallback pattern the pickCount of the single group is the N
\* of the "pick N" phrases when there is one and all agree on N; when they
\* disagree, or there is none, it is the number of members of the group.
C12_FallbackPickCount ==
  (Fallback /\ specialization.coreCourses # <<>>) =>
    /\ Len(specialization.coreCourses) = 1
    /\ specialization.coreCourses[1].pickCount =
         IF Cardinality(PhraseCounts) = 1 THEN CHOOSE n \in PhraseCounts : TRUE
         ELSE Len(specialization.coreCourses[1].courseIds)

(***************************************************************************)
(* Instruction phrases: crawlSpecialization on a page whose core fragment  *)
(* ends with one instruction line and the list it introduces.              *)
(***************************************************************************)
\* instruction lines: an optional "and", a verb, a count spelled or in
\* digits, an optional parenthesized digit, an optional colon
Phrases ==
  {lead \o <<verb, count>> \o paren \o trail :
     lead \in {<<>>, <<"And,">>, <<"and">>},
     verb \in {"pick", "Pick", "take", "select"},
     count \in CountWords \cup DigitWords,
     paren \in {<<>>} \cup {<<p>> : p \in ParenWords},
     trail \in {<<>>, <<":">>}}

\* what precedes the instruction line, and the lists it may introduce
PhraseLeads == {<<>>, <<List(<<ItemB>>)>>}
PhraseLists == {List(<<ItemA>>), List(<<ItemA, ItemB, ItemA>>), List(<<ItemX>>)}

InitPhrase ==
  /\ pc = "fetched"
  /\ html \in {<<CoreHeading>> \o before \o <<Para(phrase), list>> :
                 before \in PhraseLeads, phrase \in Phrases, list \in PhraseLists}
  /\ sectionName = ""
  /\ section = NullSection
  /\ specialization = NoSpecialization
  /\ NoStaticFiles
  /\ MainLocalsInit
  /\ UnitsIdle
  /\ OscarSideIdle

SpecPhrase == InitPhrase /\ [][NextClassify]_vars

\* the instruction line of the page, and the list after it
ThePhrase == html[Len(html) - 1].text
TheList == html[Len(html)]

\* where the verb of the instruction line stands
VerbAt == IF Lower(ThePhrase[1]) \in {"and", "and,"} THEN 2 ELSE 1
TheVerb == Lower(ThePhrase[VerbAt])

\* the parts of the count of the instruction line
SpelledOrDigit == ThePhrase[VerbAt + 1]
HasParen == VerbAt + 2 <= Len(ThePhrase) /\ ThePhrase[VerbAt + 2] \in ParenWords

\* the count the line asks for: the parenthesized digit, else the bare
\* digit, else the spelled word
AskedCount ==
  IF HasParen THEN ParenInt(ThePhrase[VerbAt + 2])
  ELSE IF SpelledOrDigit \in DigitWords THEN ParseInt(SpelledOrDigit)
  ELSE wordToNum(SpelledOrDigit)

\* the list after the line holds a recognizable course
ListHasCourse == RecognizedIds(TheList.items) # <<>>

\* the group the list after the line went to: the last one
LastGroup == specialization.coreCourses[Len(specialization.coreCourses)]

\* C13: in the "and, pick N" pattern and in the "pick N" pattern alike, the
\* count of an instruction phrase is its parenthesized digit if it has one,
\* else its bare digit, else its spelled word one..five as 1..5.
C13_CountPrecedence ==
  (Crawled /\ TheVerb = "pick" /\ ListHasCourse) =>
    /\ specialization.coreCourses # <<>>
    /\ LastGroup.pickCount = AskedCount

\* "And, pick two (1):" after a first list gave a second group with pickCount 1
C13_Witness ==
  /\ Crawled
  /\ ListHasCourse
  /\ ThePhrase = <<"And,", "pick", "two", "(1)", ":">>
  /\ Len(specialization.coreCourses) = 2
  /\ LastGroup.pickCount = 1

\* C15: every group the classifier emits has a pickCount of at least 1,
\* also when the page writes the count as the digit 0.
C15_PickCountPositive ==
  Crawled =>
    \A k \in 1..Len(specialization.coreCourses) :
      specialization.coreCourses[k].pickCount >= 1

\* the instruction line directly precedes the list and has no "and"
InlineLine == VerbAt = 1

\* C16: an instruction line "take N" or "select N" directly before a list
\* gives a group with pickCount N, as the line "pick N" does.
C16_TakeSelectAlike ==
  (Crawled /\ InlineLine /\ TheVerb \in {"take", "select"} /\ ListHasCourse) =>
    /\ specialization.coreCourses # <<>>
    /\ LastGroup.pickCount = AskedCount

(***************************************************************************)
(* Inline pick-count lines in the fallback pattern.                        *)
(***************************************************************************)
\* no paragraph of the fragment reads "or"
NoOrParagraph ==
  \A i \in 1..Len(CoreFragment) :
    CoreFragment[i].kind = "p" => CoreFragment[i].text \notin {<<"or">>, <<"Or">>}

\* the lists directly preceded by a pick-count line, holding a course
IntroducedLists ==
  {i \in ListIndices :
     /\ i > 1
     /\ CoreFragment[i - 1].kind = "p"
     /\ PickMatches(CoreFragment[i - 1].text, 1) # <<>>
     /\ RecognizedIds(CoreFragment[i].items) # <<>>}

\* C17: with no "and, pick N" marker and no "or" paragraph, the group of a
\* pick-count line that directly precedes a list has the identifiers of
\* that list as members and no identifier of another list.
C17_InlineMembers ==
  (Crawled /\ NoAndPickMarker /\ NoOrParagraph) =>
    \A i \in IntroducedLists :
      \E k \in 1..Len(specialization.coreCourses) :
        specialization.coreCourses[k].courseIds =
          FirstOccurrences(RecognizedIds(CoreFragment[i].items))

(***************************************************************************)
(* Whole pages: crawlSpecialization on a page with or without a core       *)
(* section and with or without an electives section.                       *)
(***************************************************************************)
\* an instruction line among the items of the electives list
ItemP == <<"Pick", "two", "of">>

\* the core part of a page: none, a section, or a heading that lacks the
\* qualifier
CoreParts ==
  {<<>>, <<Heading(3, "Core Courses", FALSE), List(<<ItemA>>)>>}
  \cup {<<CoreHeading>> \o fragment : fragment \in Fragments(MaxDoc)}

\* the electives part of a page, likewise
ElectiveParts ==
  {<<>>, <<Heading(4, "Electives", FALSE), List(<<ItemB>>)>>}
  \cup {<<Heading(3, "Electives", TRUE), List(items)>> :
          items \in SeqsUpTo({ItemA, ItemB, ItemP}, MaxDoc)}

InitPage ==
  /\ pc = "fetched"
  /\ html \in {core \o electives : core \in CoreParts, electives \in ElectiveParts}
  /\ sectionName = ""
  /\ section = NullSection
  /\ specialization = NoSpecialization
  /\ NoStaticFiles
  /\ MainLocalsInit
  /\ UnitsIdle
  /\ OscarSideIdle

SpecPage == InitPage /\ [][NextClassify]_vars

\* where the electives heading of the page stands; past the end if none
ElectivesAt ==
  Least({i \in 1..Len(html) : html[i].kind = "h" /\ html[i].label = "Electives"}
        \cup {Len(html) + 1})

\* the items of the lists among elements lo..hi of the page, in order
RECURSIVE PageItems(_, _)
PageItems(lo, hi) ==
  IF lo > hi THEN <<>>
  ELSE (IF html[lo].kind = "list" THEN html[lo].items ELSE <<>>)
       \o PageItems(lo + 1, hi)

\* the list items of the core section and of the electives section
CoreSectionItems ==
  IF html # <<>> /\ html[1] = CoreHeading THEN PageItems(2, ElectivesAt - 1) ELSE <<>>
ElectiveSectionItems ==
  IF ElectivesAt <= Len(html) /\ html[ElectivesAt].qual
  THEN PageItems(ElectivesAt + 1, Len(html)) ELSE <<>>

NoRepeats(ids) == \A i, j \in 1..Len(ids) : ids[i] = ids[j] => i = j

\* C14: in the Specialization crawlSpecialization returns, the courseIds of
\* every core group and electiveCourseIds repeat no identifier, and hold
\* the identifiers of the contributing list items (a run of lists of the
\* core section; the items of the electives section) in the order of their
\* first occurrence.
C14_Deduplicated ==
  Crawled =>
    /\ \A k \in 1..Len(specialization.coreCourses) :
         LET ids == specialization.coreCourses[k].courseIds
         IN  /\ NoRepeats(ids)
             /\ \E lo, hi \in 2..ElectivesAt - 1 :
                  ids = FirstOccurrences(RecognizedIds(PageItems(lo, hi)))
    /\ NoRepeats(specialization.electiveCourseIds)
    /\ specialization.electiveCourseIds
         = FirstOccurrences(RecognizedIds(ElectiveSectionItems))

\* a core list and the electives list each name a course twice
C14_Witness ==
  /\ Crawled
  /\ Len(specialization.coreCourses) = 1
  /\ Len(specialization.coreCourses[1].courseIds)
       < Len(RecognizedIds(CoreSectionItems))
  /\ Len(specialization.electiveCourseIds) = 2
  /\ Len(RecognizedIds(ElectiveSectionItems)) = 3

\* the identifiers of all core groups
GroupedIds ==
  UNION {{specialization.coreCourses[k].courseIds[n] :
            n \in 1..Len(specialization.coreCourses[k].courseIds)} :
           k \in 1..Len(specialization.coreCourses)}

CoreMissing ==
  extractSectionContent(html, "Core Courses", <<"Electives", "Free Electives">>)
    = NullSection
ElectivesMissing ==
  extractSectionContent(html, "Electives", <<"Free Electives">>) = NullSection

\* C18: crawlSpecialization returns a Specialization with the configured
\* id and name and programId "cs" whatever sections the page has; a core
\* section that is not found gives no core group and an electives section
\* that is not found gives no elective, and in either case the other
\* section is read as it is on a page that has both.
C18_MissingSectionNotFatal ==
  Crawled =>
    /\ specialization.specializationId = SPECIALIZATION_URLS[1].id
    /\ specialization.name = SPECIALIZATION_URLS[1].name
    /\ specialization.programId = "cs"
    /\ CoreMissing =>
         /\ specialization.coreCourses = <<>>
         /\ specialization.electiveCourseIds
              = FirstOccurrences(RecognizedIds(ElectiveSectionItems))
    /\ ElectivesMissing =>
         /\ specialization.electiveCourseIds = <<>>
         /\ GroupedIds = {RecognizedIds(CoreSectionItems)[n] :
                            n \in 1..Len(RecognizedIds(CoreSectionItems))}

\* a page without a core section whose electives were read
C18_Witness ==
  /\ Crawled
  /\ CoreMissing
  /\ ~ElectivesMissing
  /\ specialization.specializationId = "cs:ml"
  /\ specialization.coreCourses = <<>>
  /\ Len(specialization.electiveCourseIds) = 2

(***************************************************************************)
(* Failures of fetchPage during a run of main.                             *)
(***************************************************************************)
\* the configured specializations whose page did not throw, from entry k on
RECURSIVE CrawledWithoutThrow(_)
CrawledWithoutThrow(k) ==
  IF k > Len(SPECIALIZATION_URLS) THEN <<>>
  ELSE (IF fetchResults[k].ok THEN <<SPECIALIZATION_URLS[k].id>> ELSE <<>>)
       \o CrawledWithoutThrow(k + 1)

\* C19: whichever specialization pages throw, crawlAllSpecializations
\* returns, having tried every configured page, exactly the
\* specializations of the pages that did not throw, in configuration order.
C19_FailureIsolated ==
  AfterMergeSpecs =>
    /\ Len(fetchResults) = Len(SPECIALIZATION_URLS)
    /\ [k \in 1..Len(crawledSpecs) |-> crawledSpecs[k].specializationId]
         = CrawledWithoutThrow(1)

\* the first configured page threw and the second was crawled
C19_Witness ==
  /\ AfterMergeSpecs
  /\ ~fetchResults[1].ok
  /\ fetchResults[2].ok
  /\ Len(crawledSpecs) = 1
  /\ crawledSpecs[1].specializationId = "cs:cs"

\* C20: a run in which the fetch of the current-courses page failed goes on
\* to crawl the specialization pages and merge them, and does not end there.
C20_CoursePageFailureNotFatal ==
  [][pc = "failed" => pc' = "mergedSpecs"]_vars

(***************************************************************************)
(* Persisted files that exist but do not parse.                            *)
(***************************************************************************)
Unparsable(file) == file.present /\ ~file.parses

\* C21: a courses.json or specializations.json that exists but cannot be
\* parsed is loaded as absent, without a throw: the merge gives what it
\* gives for the same crawl and no prior file, every crawled course new.
C21_UnreadableAsAbsent ==
  /\ (AfterMergeCourses /\ Unparsable(coursesFile)) =>
       /\ existingCourses = NullMap
       /\ courses = mergeCourses(crawledCourses, NullMap).courses
       /\ newCourses = mergeCourses(crawledCourses, NullMap).newCourses
       /\ {newCourses[i] : i \in 1..Len(newCourses)} = CrawledIds
       /\ DOMAIN courses = CrawledIds
  /\ (AfterMergeSpecs /\ Unparsable(specsFile)) =>
       /\ existingSpecs = NullMap
       /\ specializations = mergeSpecializations(crawledSpecs, NullMap)
       /\ DOMAIN specializations = CrawledSpecIds

\* a course spelled in the broken courses.json was crawled and reported new
C21_Witness ==
  /\ AfterMergeCourses
  /\ Unparsable(coursesFile)
  /\ \E id \in DOMAIN coursesFile.map : id \in CrawledIds
  /\ newCourses # <<>>
  /\ newCourses[1] \in DOMAIN coursesFile.map

(***************************************************************************)
(* Groups and their members.                                               *)
(***************************************************************************)
\* C26: every core group of a crawled specialization has at least one
\* member: a step of a pattern that collects no identifier (a marker with no
\* list before it, a marker with no list after it, a list of items that name
\* no course) adds no group.
C26_NoEmptyGroup ==
  Crawled =>
    \A k \in 1..Len(specialization.coreCourses) :
      Len(specialization.coreCourses[k].courseIds) >= 1

\* two markers, no list before the first and none after the second: the
\* only group is the one of the first marker
C26_Witness ==
  /\ Sequential
  /\ Cardinality(MarkerIndices) = 2
  /\ ~HasListBetween(1, MarkerAt(1))
  /\ HasListBetween(MarkerAt(1), MarkerAt(2))
  /\ ~HasListBetween(MarkerAt(2), Len(CoreFragment) + 1)
  /\ Len(specialization.coreCourses) = 1
  /\ specialization.coreCourses[1].pickCount = MarkerCount(1)

(***************************************************************************)
(* The entity recognizer on one mention: parseCourseText, then             *)
(* extractCourseId, on the same text.                                      *)
(***************************************************************************)
\* the titles a mention may carry; the empty one leaves nothing for (.+)
MentionTitles == {<<>>, <<"Compilers">>, <<"Artificial", "Intelligence">>}

\* the texts handed to the recognizer: SUBJECT NUMBER, an optional section
\* code, a title; and one text that mentions no course
Mentions ==
  {<<subject, number>> \o code \o title :
     subject \in SubjectWords, number \in NumberWords,
     code \in {<<>>} \cup {<<c>> : c \in CodeWords}, title \in MentionTitles}
  \cup {<<"Any", "Special", "Topics">>}

InitRecognize ==
  /\ pc = "mention"
  /\ mentionText \in Mentions
  /\ parsedCourse = [found |-> FALSE]
  /\ parsedId = <<Null>>
  /\ NoStaticFiles
  /\ MainLocalsInit
  /\ PageInit
  /\ NormalizerIdle
  /\ OscarSideIdle

\* parseCourseText(text, null, false)
ParseCourseText ==
  /\ pc = "mention"
  /\ parsedCourse' = parseCourseText(mentionText, Null, FALSE)
  /\ pc' = "parsed"
  /\ UNCHANGED <<mentionText, parsedId, mainVars, pageVars, normalizerVars,
                 oscarSideVars>>

\* extractCourseId(text)
ExtractCourseId ==
  /\ pc = "parsed"
  /\ parsedId' = extractCourseId(mentionText)
  /\ pc' = "extracted"
  /\ UNCHANGED <<mentionText, parsedCourse, mainVars, pageVars, normalizerVars,
                 oscarSideVars>>

NextRecognize == ParseCourseText \/ ExtractCourseId

SpecRecognize == InitRecognize /\ [][NextRecognize]_vars

\* the special-topics numbers: SPECIAL_TOPICS_COURSES of the OSCAR parser
SPECIAL_TOPICS_COURSES == {"8803", "8813", "8823"}

\* C22: in both modes of the recognizer a section code enters the identity
\* of a course only when the number is a special-topics number: such a
\* mention yields SUBJECT-NUMBER-SECTIONCODE and NUMBER-SECTIONCODE, and a
\* mention with a section code and any other number yields SUBJECT-NUMBER
\* and NUMBER.
C22_SectionCodeOnlyForSpecialTopics ==
  (pc = "extracted" /\ MatchesCourseStart(mentionText) /\ HasCode(mentionText)) =>
    LET subject == mentionText[1]
        number == mentionText[2]
        code == mentionText[3]
    IN  IF number \in SPECIAL_TOPICS_COURSES
        THEN /\ parsedId = <<subject, number, code>>
             /\ parsedCourse.found =>
                  /\ parsedCourse.course.courseId = <<subject, number, code>>
                  /\ parsedCourse.course.courseNumber = <<number, code>>
        ELSE /\ parsedId = <<subject, number>>
             /\ parsedCourse.found =>
                  /\ parsedCourse.course.courseId = <<subject, number>>
                  /\ parsedCourse.course.courseNumber = <<number>>

(***************************************************************************)
(* Text normalizer: decodeHtmlEntities.  A text is a sequence of tokens:   *)
(* "&", the rest of an entity ("amp;", "nbsp;", ...), a white space        *)
(* character, or another character.  An entity is "&" followed by its      *)
(* rest, so a replacement that leaves "&" before "amp;" has spelled a new  *)
(* entity, as it does in the string.                                       *)
(***************************************************************************)
MaxText == 4

\* text.replace(/&name/g, by), left to right, not rescanning what it wrote
RECURSIVE ReplaceAll(_, _, _)
ReplaceAll(tokens, rest, by) ==
  IF tokens = <<>> THEN <<>>
  ELSE IF Len(tokens) >= 2 /\ tokens[1] = "&" /\ tokens[2] = rest
  THEN <<by>> \o ReplaceAll(SubSeq(tokens, 3, Len(tokens)), rest, by)
  ELSE <<Head(tokens)>> \o ReplaceAll(Tail(tokens), rest, by)

\* \s
WhiteSpace == {" ", "\n", "\t"}

\* text.replace(/\s+/g, ' ')
RECURSIVE CollapseSpaces(_)
CollapseSpaces(tokens) ==
  IF tokens = <<>> THEN <<>>
  ELSE IF Head(tokens) \in WhiteSpace
  THEN IF Len(tokens) >= 2 /\ tokens[2] \in WhiteSpace
       THEN CollapseSpaces(Tail(tokens))
       ELSE <<" ">> \o CollapseSpaces(Tail(tokens))
  ELSE <<Head(tokens)>> \o CollapseSpaces(Tail(tokens))

\* text.trim()
RECURSIVE Trim(_)
Trim(tokens) ==
  IF tokens = <<>> THEN <<>>
  ELSE IF Head(tokens) \in WhiteSpace THEN Trim(Tail(tokens))
  ELSE IF tokens[Len(tokens)] \in WhiteSpace
  THEN Trim(SubSeq(tokens, 1, Len(tokens) - 1))
  ELSE tokens

\* the eight replacements in the order of the source, then the white space
decodeHtmlEntities(tokens) ==
  LET nbsp == ReplaceAll(tokens, "nbsp;", " ")
      amp == ReplaceAll(nbsp, "amp;", "&")
      lt == ReplaceAll(amp, "lt;", "<")
      gt == ReplaceAll(lt, "gt;", ">")
      quot == ReplaceAll(gt, "quot;", "\"")
      apos == ReplaceAll(quot, "#39;", "'")
      ndash == ReplaceAll(apos, "ndash;", "U+2013")
      mdash == ReplaceAll(ndash, "mdash;", "U+2014")
  IN  Trim(CollapseSpaces(mdash))

\* the tokens of the texts handed to the normalizer
TextTokens == {"&", "amp;", "nbsp;", "lt;", " ", "a"}

InitNormalize ==
  /\ pc = "text"
  /\ rawText \in SeqsUpTo(TextTokens, MaxText)
  /\ decoded = <<>>
  /\ decodedAgain = <<>>
  /\ NoStaticFiles
  /\ MainLocalsInit
  /\ PageInit
  /\ RecognizerIdle
  /\ OscarSideIdle

\* decodeHtmlEntities(text)
Decode ==
  /\ pc = "text"
  /\ decoded' = decodeHtmlEntities(rawText)
  /\ pc' = "decoded"
  /\ UNCHANGED <<rawText, decodedAgain, mainVars, pageVars, recognizerVars,
                 oscarSideVars>>

\* decodeHtmlEntities of the text that decodeHtmlEntities returned
DecodeAgain ==
  /\ pc = "decoded"
  /\ decodedAgain' = decodeHtmlEntities(decoded)
  /\ pc' = "decodedAgain"
  /\ UNCHANGED <<rawText, decoded, mainVars, pageVars, recognizerVars,
                 oscarSideVars>>

NextNormalize == Decode \/ DecodeAgain

SpecNormalize == InitNormalize /\ [][NextNormalize]_vars

\* C23: the normalizer is idempotent: normalizing the text it returned
\* returns that text unchanged, also when the decoded text itself spells an
\* entity.
C23_DecodeIdempotent == pc = "decodedAgain" => decodedAgain = decoded

(***************************************************************************)
(* The OSCAR parser: parseSectionsToCourses of src/oscar/parser.ts.        *)
(***************************************************************************)
MaxSections == 3

\* a bannerSection as Banner answers it
BannerSection(crn, subject, courseNumber, sequenceNumber, courseTitle, seats, faculty) ==
  [courseReferenceNumber |-> crn,
   subject |-> subject,
   courseNumber |-> courseNumber,
   sequenceNumber |-> sequenceNumber,
   courseTitle |-> courseTitle,
   creditHours |-> 3,
   maximumEnrollment |-> seats.capacity,
   enrollment |-> seats.enrolled,
   seatsAvailable |-> seats.capacity - seats.enrolled,
   waitCapacity |-> 10,
   waitCount |-> seats.waiting,
   faculty |-> faculty]

Faculty(displayName, primaryIndicator) ==
  [displayName |-> displayName, primaryIndicator |-> primaryIndicator]

\* the sections of the answers: graduate and undergraduate numbers, a number
\* that is no number, OMSCS sections, an OMSA bannerSection and a campus section
BannerSectionPool ==
  {BannerSection("20001", "CS", "6515", "O01", "Graduate Algorithms",
                 [capacity |-> 5, enrolled |-> 5, waiting |-> 2],
                 <<Faculty("A", FALSE), Faculty("B", TRUE)>>),
   BannerSection("20002", "CS", "6515", "O02", "Graduate Algorithms",
                 [capacity |-> 4, enrolled |-> 1, waiting |-> 0], <<Faculty("A", FALSE)>>),
   BannerSection("20003", "CS", "8803", "O08", "Compilers",
                 [capacity |-> 3, enrolled |-> 2, waiting |-> 0], <<>>),
   BannerSection("20004", "CS", "8803", "O01", "Computing Law",
                 [capacity |-> 3, enrolled |-> 0, waiting |-> 0], <<>>),
   BannerSection("20005", "CS", "4400", "O01", "Databases",
                 [capacity |-> 2, enrolled |-> 1, waiting |-> 0], <<>>),
   BannerSection("20006", "CS", "6515", "OAN", "Graduate Algorithms",
                 [capacity |-> 2, enrolled |-> 2, waiting |-> 1], <<>>),
   BannerSection("20007", "CS", "XXXX", "O01", "Transfer Credit",
                 [capacity |-> 1, enrolled |-> 0, waiting |-> 0], <<>>),
   BannerSection("20008", "ISYE", "6501", "A", "Analytics Modeling",
                 [capacity |-> 1, enrolled |-> 1, waiting |-> 0], <<>>)}

\* parseInt(courseNumber, 10)
parseInt(courseNumber) ==
  CASE courseNumber = "6515" -> [isNaN |-> FALSE, num |-> 6515]
    [] courseNumber = "6501" -> [isNaN |-> FALSE, num |-> 6501]
    [] courseNumber = "8803" -> [isNaN |-> FALSE, num |-> 8803]
    [] courseNumber = "4400" -> [isNaN |-> FALSE, num |-> 4400]
    [] OTHER -> [isNaN |-> TRUE, num |-> 0]

\* the sequence numbers that /^O\d{2}$/ matches
ODigitDigit == {"O01", "O02", "O08"}

\* the sequence numbers that start with O
OAnything == ODigitDigit \cup {"OAN"}

\* for (const faculty of bannerSection.faculty || []) if (faculty.primaryIndicator) ...
RECURSIVE FirstPrimary(_)
FirstPrimary(faculty) ==
  IF faculty = <<>> THEN Null
  ELSE IF Head(faculty).primaryIndicator THEN Head(faculty).displayName
  ELSE FirstPrimary(Tail(faculty))

\* the primary instructor, else the first one, else null
getPrimaryInstructor(bannerSection) ==
  IF FirstPrimary(bannerSection.faculty) # Null THEN FirstPrimary(bannerSection.faculty)
  ELSE IF bannerSection.faculty = <<>> THEN Null
  ELSE bannerSection.faculty[1].displayName

generateCourseId(subject, courseNumber, sectionNumber) ==
  IF courseNumber \in SPECIAL_TOPICS_COURSES /\ sectionNumber # ""
  THEN <<subject, courseNumber, sectionNumber>>
  ELSE <<subject, courseNumber>>

parseSection(bannerSection) ==
  [crn |-> bannerSection.courseReferenceNumber,
   sectionNumber |-> bannerSection.sequenceNumber,
   instructor |-> getPrimaryInstructor(bannerSection),
   enrolled |-> bannerSection.enrollment,
   capacity |-> bannerSection.maximumEnrollment,
   seatsAvailable |-> bannerSection.seatsAvailable,
   waitCount |-> bannerSection.waitCount,
   waitCapacity |-> bannerSection.waitCapacity]

isGraduateCourse(courseNumber) ==
  LET num == parseInt(courseNumber)
  IN  ~num.isNaN /\ num.num >= 6000

\* mutant: every online bannerSection passes, whatever follows the O
isOnlineSection(sectionNumber) == sectionNumber \in OAnything

isOMSCSSection(sectionNumber) == sectionNumber \in ODigitDigit

\* the course a first bannerSection makes
NewOscarCourse(courseId, bannerSection) ==
  [courseId |-> courseId,
   subject |-> bannerSection.subject,
   courseNumber |-> IF bannerSection.courseNumber \in SPECIAL_TOPICS_COURSES
                    THEN <<bannerSection.courseNumber, bannerSection.sequenceNumber>>
                    ELSE <<bannerSection.courseNumber>>,
   name |-> bannerSection.courseTitle,
   creditHours |-> bannerSection.creditHours,
   sections |-> <<>>,
   totalSeats |-> 0,
   totalEnrolled |-> 0,
   totalAvailable |-> 0,
   totalWaitlisted |-> 0]

\* course.sections.push(parsedSection) and the four totals
AddSection(course, parsedSection) ==
  [course EXCEPT
     !.sections = Append(@, parsedSection),
     !.totalSeats = @ + parsedSection.capacity,
     !.totalEnrolled = @ + parsedSection.enrolled,
     !.totalAvailable = @ + parsedSection.seatsAvailable,
     !.totalWaitlisted = @ + parsedSection.waitCount]

\* the loop of parseSectionsToCourses over the sections that are left
RECURSIVE parseSectionsLoop(_, _)
parseSectionsLoop(sections, map) ==
  IF sections = <<>> THEN map
  ELSE LET bannerSection == Head(sections)
           courseId == generateCourseId(bannerSection.subject, bannerSection.courseNumber,
                                        bannerSection.sequenceNumber)
           course == IF courseId \in DOMAIN map THEN map[courseId]
                     ELSE NewOscarCourse(courseId, bannerSection)
       IN  IF ~isGraduateCourse(bannerSection.courseNumber) THEN parseSectionsLoop(Tail(sections), map)
           ELSE IF ~isOMSCSSection(bannerSection.sequenceNumber)
           THEN parseSectionsLoop(Tail(sections), map)
           ELSE parseSectionsLoop(Tail(sections),
                                  Put(map, courseId, AddSection(course, parseSection(bannerSection))))

parseSectionsToCourses(sections) == parseSectionsLoop(sections, EmptyMap)

InitParse ==
  /\ pc = "sections"
  /\ bannerSections \in SeqsUpTo(BannerSectionPool, MaxSections)
  /\ courseMap = EmptyMap
  /\ NoStaticFiles
  /\ MainLocalsInit
  /\ PageInit
  /\ UnitsIdle
  /\ BannerIdle
  /\ OscarIdle

\* parseSectionsToCourses(sections)
ParseSections ==
  /\ pc = "sections"
  /\ courseMap' = parseSectionsToCourses(bannerSections)
  /\ pc' = "sectionsParsed"
  /\ UNCHANGED <<bannerSections, mainVars, pageVars, unitVars, bannerVars, oscarVars>>

NextParse == ParseSections

SpecParse == InitParse /\ [][NextParse]_vars

\* a bannerSection number of the form O, digit, digit
IsODigitDigit(sectionNumber) ==
  sectionNumber \in {"O" \o d1 \o d2 : d1, d2 \in {"0", "1", "2", "8"}}

\* the input sections that are graduate OMSCS sections, as indices
Qualifying ==
  {i \in 1..Len(bannerSections) :
     /\ ~parseInt(bannerSections[i].courseNumber).isNaN
     /\ parseInt(bannerSections[i].courseNumber).num >= 6000
     /\ IsODigitDigit(bannerSections[i].sequenceNumber)}

\* how often the bannerSection of reference number crn is stored under course id
StoredUnder(id, crn) ==
  Cardinality({k \in 1..Len(courseMap[id].sections) : courseMap[id].sections[k].crn = crn})

\* how often the bannerSection of reference number crn is in the input and qualifies
Given(crn) ==
  Cardinality({i \in Qualifying : bannerSections[i].courseReferenceNumber = crn})

\* C27: parseSectionsToCourses keeps the graduate OMSCS sections only: every
\* stored bannerSection has a course number that parses to an integer >= 6000 and
\* a bannerSection number O, digit, digit; every input bannerSection of that kind is
\* stored under exactly one course, and no other input bannerSection is stored.
C27_OnlyGraduateOMSCS ==
  pc = "sectionsParsed" =>
    /\ \A id \in DOMAIN courseMap :
         \A k \in 1..Len(courseMap[id].sections) :
           \E i \in Qualifying :
             /\ bannerSections[i].courseReferenceNumber = courseMap[id].sections[k].crn
             /\ bannerSections[i].sequenceNumber = courseMap[id].sections[k].sectionNumber
             /\ bannerSections[i].subject = courseMap[id].subject
             /\ bannerSections[i].courseNumber = courseMap[id].courseNumber[1]
    /\ \A i \in 1..Len(bannerSections) :
         LET crn == bannerSections[i].courseReferenceNumber
             holders == {id \in DOMAIN courseMap : StoredUnder(id, crn) > 0}
         IN  IF i \in Qualifying
             THEN /\ Cardinality(holders) = 1
                  /\ \A id \in holders : StoredUnder(id, crn) = Given(crn)
             ELSE holders = {}

\* three sections of one number: two OMSCS sections and the OMSA section;
\* the course holds the two
C27_Witness ==
  /\ pc = "sectionsParsed"
  /\ Len(bannerSections) = 3
  /\ \E i \in 1..3 : bannerSections[i].sequenceNumber = "OAN"
  /\ Cardinality(Qualifying) = 2
  /\ DOMAIN courseMap = {<<"CS", "6515">>}
  /\ Len(courseMap[<<"CS", "6515">>].sections) = 2
  /\ courseMap[<<"CS", "6515">>].totalSeats = 9

(***************************************************************************)
(* The Banner client: fetchAllCourses and the searchCourses calls it       *)
(* makes, of src/oscar/banner-client.ts.  The server holds serverTotal     *)
(* sections, numbered from 1, and reports that number with every page.     *)
(***************************************************************************)
\* config.requestDelayMs, config.maxRetries, config.retryBackoffMs, config.pageSize
requestDelayMs == 1000
maxRetries == 3
retryBackoffMs == 2000
pageSize == 500

\* Math.pow(2, n)
RECURSIVE Pow2(_)
Pow2(n) == IF n <= 0 THEN 1 ELSE 2 * Pow2(n - 1)

\* the numbers lo..hi in order
Range(lo, hi) == [k \in 1..(hi - lo + 1) |-> lo + k - 1]

\* response.data of the page at offset: at most pageSize sections from there
PageData(offset, total) ==
  Range(offset + 1, IF offset + pageSize < total THEN offset + pageSize ELSE total)

\* the totals the server may report: no section, less than a page, a full
\* page, and one section more or less than two pages
ServerTotals == {0, 1, 500, 501, 999, 1000, 1001}

\* what makes an attempt fail: fetch rejects, the status is not ok, or the
\* answer says success = false
AttemptErrors == {"fetch failed", "HTTP 500", "success=false"}

\* mutant: a backoff follows every failed attempt, the last one too
BackoffAlways(n) == TRUE

\* if (attempt < config.maxRetries) await sleep(backoff)
BackoffDue(n) == n < maxRetries

\* mutant: the loop goes on while pageOffset <= totalCount
MorePagesInclusive(offset, total) == offset <= total

\* while (pageOffset < totalCount)
MorePages(offset, total) == offset < total

InitBanner ==
  /\ pc = "fetchAllCourses"
  /\ serverTotal \in ServerTotals
  /\ pageOffset = 0
  /\ totalCount = 0
  /\ allSections = <<>>
  /\ attempt = 0
  /\ lastError = Null
  /\ requests = <<>>
  /\ waits = <<>>
  /\ fetchTermSections = [returned |-> FALSE, sections |-> <<>>]
  /\ NoStaticFiles
  /\ MainLocalsInit
  /\ PageInit
  /\ UnitsIdle
  /\ ParserIdle
  /\ OscarIdle

\* searchCourses up to its loop: rateLimit sleeps for what is left of
\* requestDelayMs since the last request
SearchCourses ==
  /\ pc = "fetchAllCourses"
  /\ \E elapsed \in {0, 400, requestDelayMs} :
       waits' = IF elapsed < requestDelayMs
                THEN Append(waits, [kind |-> "rateLimit", ms |-> requestDelayMs - elapsed,
                                    pageOffset |-> pageOffset, attempt |-> 0])
                ELSE waits
  /\ lastError' = Null
  /\ attempt' = 1
  /\ pc' = IF 1 <= maxRetries THEN "attempt" ELSE "thrown"
  /\ UNCHANGED <<serverTotal, pageOffset, totalCount, allSections, requests,
                 fetchTermSections, mainVars, pageVars, unitVars, parserVars, oscarVars>>

\* an attempt that succeeds: searchCourses returns the answer, and
\* fetchAllCourses goes through the rest of its loop body and the loop test
AttemptSucceeds ==
  /\ pc = "attempt"
  /\ requests' = Append(requests, [pageOffset |-> pageOffset, attempt |-> attempt, ok |-> TRUE])
  /\ allSections' = allSections \o PageData(pageOffset, serverTotal)
  /\ totalCount' = serverTotal
  /\ pageOffset' = pageOffset + pageSize
  /\ IF MorePages(pageOffset', totalCount')
     THEN /\ pc' = "fetchAllCourses"
          /\ UNCHANGED fetchTermSections
     ELSE /\ pc' = "returned"
          /\ fetchTermSections' = [returned |-> TRUE, sections |-> allSections']
  /\ UNCHANGED <<serverTotal, attempt, lastError, waits, mainVars, pageVars,
                 unitVars, parserVars, oscarVars>>

\* an attempt that fails: the catch block, attempt++, and the throw after
\* the loop when that was the last attempt
AttemptFails ==
  /\ pc = "attempt"
  /\ \E error \in AttemptErrors : lastError' = error
  /\ requests' = Append(requests, [pageOffset |-> pageOffset, attempt |-> attempt, ok |-> FALSE])
  /\ waits' = IF BackoffDue(attempt)
              THEN Append(waits, [kind |-> "backoff",
                                  ms |-> retryBackoffMs * Pow2(attempt - 1),
                                  pageOffset |-> pageOffset, attempt |-> attempt])
              ELSE waits
  /\ attempt' = attempt + 1
  /\ pc' = IF attempt' <= maxRetries THEN "attempt" ELSE "thrown"
  /\ UNCHANGED <<serverTotal, pageOffset, totalCount, allSections,
                 fetchTermSections, mainVars, pageVars, unitVars, parserVars, oscarVars>>

NextBanner == SearchCourses \/ AttemptSucceeds \/ AttemptFails

SpecBanner == InitBanner /\ [][NextBanner]_vars

\* every fetch settles and every sleep ends, so a step that can be taken is
\* taken
SpecBannerFair == SpecBanner /\ WF_vars(NextBanner)

\* the page offsets searchCourses was called with
PagesAsked == {requests[k].pageOffset : k \in 1..Len(requests)}

\* the attempts made for the page at offset, in order
AttemptsFor(offset) ==
  LET OfPage(request) == request.pageOffset = offset
  IN  SelectSeq(requests, OfPage)

\* the backoff waits made for the page at offset, in order
BackoffsFor(offset) ==
  LET OfPage(wait) == wait.kind = "backoff" /\ wait.pageOffset = offset
  IN  SelectSeq(waits, OfPage)

\* whether every one of the maxRetries attempts for the page failed
AllAttemptsFailed(offset) ==
  /\ Len(AttemptsFor(offset)) = maxRetries
  /\ \A k \in 1..maxRetries : ~AttemptsFor(offset)[k].ok

\* the failed attempts for the page at offset that were not the last allowed
FailedBeforeLast(offset) ==
  {k \in 1..Len(AttemptsFor(offset)) : ~AttemptsFor(offset)[k].ok /\ k < maxRetries}

\* C29: searchCourses is a bounded retry: for one page it makes at most
\* maxRetries attempts, numbered from 1; an attempt that succeeds is the
\* last one for its page and the call returns with it; a backoff of
\* retryBackoffMs * 2^(k-1) follows the k-th failed attempt when another
\* attempt is to come, and none follows the last allowed attempt; and the
\* call throws if and only if all maxRetries attempts for a page failed.
C29_BoundedRetry ==
  /\ \A offset \in PagesAsked :
       LET attempts == AttemptsFor(offset)
           backoffs == BackoffsFor(offset)
       IN  /\ Len(attempts) <= maxRetries
           /\ \A k \in 1..Len(attempts) :
                /\ attempts[k].attempt = k
                /\ attempts[k].ok => (k = Len(attempts) /\ pageOffset > offset)
           /\ Len(backoffs) = Cardinality(FailedBeforeLast(offset))
           /\ \A k \in 1..Len(backoffs) :
                /\ backoffs[k].attempt = k
                /\ backoffs[k].ms = retryBackoffMs * Pow2(k - 1)
  /\ pc = "thrown" <=> \E offset \in PagesAsked : AllAttemptsFailed(offset)

\* the first page took two failed attempts and two backoffs before the
\* third attempt succeeded; the second page failed three times, with two
\* backoffs, and the call threw
C29_Witness ==
  /\ pc = "thrown"
  /\ Len(AttemptsFor(0)) = 3
  /\ AttemptsFor(0)[3].ok
  /\ Len(BackoffsFor(0)) = 2
  /\ AllAttemptsFailed(pageSize)
  /\ Len(BackoffsFor(pageSize)) = 2
  /\ BackoffsFor(pageSize)[2].ms = 4000

\* the offsets of the calls of searchCourses, in order
RECURSIVE OffsetsCalled(_)
OffsetsCalled(k) ==
  IF k = 0 THEN <<>>
  ELSE IF requests[k].attempt = 1
  THEN Append(OffsetsCalled(k - 1), requests[k].pageOffset)
  ELSE OffsetsCalled(k - 1)

\* 0, pageSize, 2 * pageSize, ... below total; 0 alone when total = 0
RECURSIVE OffsetsBelow(_, _)
OffsetsBelow(offset, total) ==
  IF offset > 0 /\ offset >= total THEN <<>>
  ELSE <<offset>> \o OffsetsBelow(offset + pageSize, total)

\* the calls made so far are the first offsets below the total; a call that
\* has returned made them all and returned all sections in order; a call
\* that threw returned nothing
PagesCovered ==
  /\ pc = "returned" =>
       /\ OffsetsCalled(Len(requests)) = OffsetsBelow(0, serverTotal)
       /\ fetchTermSections = [returned |-> TRUE, sections |-> Range(1, serverTotal)]
  /\ pc = "thrown" => fetchTermSections = [returned |-> FALSE, sections |-> <<>>]
  /\ pc \in {"fetchAllCourses", "attempt"} =>
       /\ ~fetchTermSections.returned
       /\ pageOffset <= serverTotal + pageSize
       /\ OffsetsCalled(Len(requests)) \in
            {SubSeq(OffsetsBelow(0, serverTotal), 1, n) :
               n \in 0..Len(OffsetsBelow(0, serverTotal))}

\* C30: fetchAllCourses ends and covers every page: with a server that
\* reports the constant total T it calls searchCourses with exactly the
\* offsets 0, pageSize, 2 * pageSize, ... below T (offset 0 alone when
\* T = 0), then stops and returns the sections of the pages in that order;
\* and when a call of searchCourses throws, the whole call throws and
\* nothing is returned.
C30_EveryPageOnce == []PagesCovered /\ <>(pc \in {"returned", "thrown"})

\* 1001 sections: three pages, the second after a retry, all returned
C30_Witness ==
  /\ pc = "returned"
  /\ serverTotal = 1001
  /\ OffsetsCalled(Len(requests)) = <<0, 500, 1000>>
  /\ Len(requests) = 4
  /\ Len(fetchTermSections.sections) = 1001

(***************************************************************************)
(* The OSCAR crawler: main of src/oscar/crawler.ts.  A term code YYYYMM is *)
(* the number 100 * YYYY + MM, so that the order of the codes is the order *)
(* of the numbers.                                                         *)
(***************************************************************************)
\* config.earliestYear
earliestYear == 2014

\* config.subjects
subjects == {"CS", "CSE", "ECE", "ISYE", "MGT", "PUBP", "INTA"}

\* the semester of the month: '02', '05' or '08'
currentSemester(month) ==
  IF month >= 1 /\ month <= 4 THEN 2
  ELSE IF month >= 5 /\ month <= 7 THEN 5
  ELSE 8

\* `${year}${sem}`
TermCode(year, sem) == 100 * year + sem

getCurrentTermCode(now) == TermCode(now.year, currentSemester(now.month))

\* the terms of the years from year down to earliestYear, newest first
RECURSIVE TermsDownFrom(_, _)
TermsDownFrom(year, now) ==
  IF year < earliestYear THEN <<>>
  ELSE LET NotAfterNow(sem) == sem <= currentSemester(now.month)
           semesters == IF year = now.year THEN SelectSeq(<<8, 5, 2>>, NotAfterNow)
                        ELSE <<8, 5, 2>>
       IN  [k \in 1..Len(semesters) |-> TermCode(year, semesters[k])]
           \o TermsDownFrom(year - 1, now)

getAllTerms(now) == TermsDownFrom(now.year, now)

\* the dates the crawler is run on
Clocks == {[year |-> 2014, month |-> 9], [year |-> 2015, month |-> 3]}

\* the command lines: --term with a code (<<>> without --term), --all,
\* --dry-run, --skip-catalog
Argvs ==
  [specificTerm : {<<>>, <<201402>>, <<201408>>}, fetchAll : BOOLEAN,
   dryRun : BOOLEAN, skipCatalog : BOOLEAN]

parseArgs(argv, now) ==
  [terms |-> IF argv.specificTerm # <<>> THEN argv.specificTerm
             ELSE IF argv.fetchAll THEN getAllTerms(now)
             ELSE <<getCurrentTermCode(now)>>,
   dryRun |-> argv.dryRun,
   skipCatalog |-> argv.skipCatalog]

\* sections of the answers of Banner to the crawler
AlgorithmsO01 ==
  BannerSection("30001", "CS", "6515", "O01", "Graduate Algorithms",
                [capacity |-> 5, enrolled |-> 5, waiting |-> 2], <<>>)
CompilersO08 ==
  BannerSection("30002", "CS", "8803", "O08", "Compilers",
                [capacity |-> 3, enrolled |-> 2, waiting |-> 0], <<>>)
DatabasesO01 ==
  BannerSection("30003", "CS", "4400", "O01", "Databases",
                [capacity |-> 2, enrolled |-> 1, waiting |-> 0], <<>>)
BiologyO01 ==
  BannerSection("30004", "BIOL", "6515", "O01", "Genomics",
                [capacity |-> 2, enrolled |-> 1, waiting |-> 0], <<>>)

\* what setTerm and fetchAllCourses give for a term: an error, or sections
Thrown == [ok |-> FALSE, sections |-> <<>>]
Sections(list) == [ok |-> TRUE, sections |-> list]
FetchOutcomes ==
  {Thrown, Sections(<<>>), Sections(<<AlgorithmsO01>>), Sections(<<CompilersO08>>),
   Sections(<<AlgorithmsO01, CompilersO08, BiologyO01>>), Sections(<<DatabasesO01>>)}

\* no term data
NoTermData == [present |-> FALSE, term |-> 0, courses |-> EmptyMap]

\* createTermData, without the name of the term and the time
createTermData(termCode, parsed) == [present |-> TRUE, term |-> termCode, courses |-> parsed]

\* fetchTerm: null after an error and for a term without sections
fetchTerm(termCode, outcome) ==
  LET Relevant(bannerSection) == bannerSection.subject \in subjects
  IN  IF ~outcome.ok THEN NoTermData
      ELSE IF Len(outcome.sections) = 0 THEN NoTermData
      ELSE createTermData(termCode,
                          parseSectionsToCourses(SelectSeq(outcome.sections, Relevant)))

\* the catalog entry of a course of termData
CatalogCourse(course, term) ==
  [courseId |-> course.courseId,
   subject |-> course.subject,
   courseNumber |-> course.courseNumber,
   name |-> course.name,
   creditHours |-> course.creditHours,
   lastSeen |-> term]

\* mergeToCatalog, without the time of the update: every course of the
\* term data is written over what the catalog holds under its identifier
mergeToCatalog(existingCatalog, termData) ==
  LET old == IF existingCatalog.present THEN existingCatalog.map ELSE EmptyMap
  IN  SomeMap([id \in DOMAIN old \cup DOMAIN termData.courses |->
                 IF id \in DOMAIN termData.courses
                 THEN CatalogCourse(termData.courses[id], termData.term)
                 ELSE old[id]])

\* loadExistingCatalog: null when the file is absent or does not parse
loadExistingCatalog(file) ==
  IF file.present /\ file.parses THEN SomeMap(file.map) ELSE NullMap

\* mutant: the term data is saved in a dry run too
PreviewNever(dryRun) == FALSE

\* if (dryRun) printTermPreview(termData) else ...
PreviewOnly(dryRun) == dryRun

\* a catalog written by an earlier run
StoredCatalog ==
  [id \in {<<"CS", "6515">>} |->
     [courseId |-> id, subject |-> "CS", courseNumber |-> <<"6515">>,
      name |-> "Graduate Algorithms", creditHours |-> 3, lastSeen |-> 201408]]

\* a term file written by an earlier run
StoredTermFiles == [term \in {201405} |-> createTermData(201405, EmptyMap)]

InitOscar ==
  /\ pc = "oscarStart"
  /\ oscarArgs = [terms |-> <<>>, dryRun |-> FALSE, skipCatalog |-> FALSE]
  /\ catalogFile \in {AbsentFile, BrokenFile(StoredCatalog), JsonFile(StoredCatalog)}
  /\ termFiles \in {EmptyMap, StoredTermFiles}
  /\ outputDir \in {d \in BOOLEAN : (catalogFile.present \/ termFiles # EmptyMap) => d}
  /\ catalog = NullMap
  /\ termsLeft = <<>>
  /\ termsSeen = <<>>
  /\ NoStaticFiles
  /\ MainLocalsInit
  /\ PageInit
  /\ UnitsIdle
  /\ ParserIdle
  /\ BannerIdle

\* main up to the first await: parseArgs, and ensureDir unless --dry-run
OscarStart ==
  /\ pc = "oscarStart"
  /\ \E argv \in Argvs, now \in Clocks : oscarArgs' = parseArgs(argv, now)
  /\ outputDir' = IF oscarArgs'.dryRun THEN outputDir ELSE TRUE
  /\ pc' = "initSession"
  /\ UNCHANGED <<termFiles, catalogFile, catalog, termsLeft, termsSeen,
                 mainVars, pageVars, unitVars, parserVars, bannerVars>>

\* initSession throws: main rejects and the process exits with code 1
InitSessionThrows ==
  /\ pc = "initSession"
  /\ pc' = "oscarFailed"
  /\ UNCHANGED <<oscarVars, mainVars, pageVars, unitVars, parserVars, bannerVars>>

\* initSession returns; the catalog is loaded unless --dry-run or --skip-catalog
LoadCatalog ==
  /\ pc = "initSession"
  /\ catalog' = IF oscarArgs.dryRun \/ oscarArgs.skipCatalog THEN NullMap
                ELSE loadExistingCatalog(catalogFile)
  /\ termsLeft' = oscarArgs.terms
  /\ pc' = "oscarTerms"
  /\ UNCHANGED <<oscarArgs, outputDir, termFiles, catalogFile, termsSeen,
                 mainVars, pageVars, unitVars, parserVars, bannerVars>>

\* one iteration of the loop over the terms
FetchTerm ==
  /\ pc = "oscarTerms"
  /\ termsLeft # <<>>
  /\ \E outcome \in FetchOutcomes :
       LET termCode == Head(termsLeft)
           termData == fetchTerm(termCode, outcome)
           saves == termData.present /\ ~PreviewOnly(oscarArgs.dryRun)
       IN  /\ termFiles' = IF saves THEN Put(termFiles, termData.term, termData)
                           ELSE termFiles
           /\ catalog' = IF saves /\ ~oscarArgs.skipCatalog
                         THEN mergeToCatalog(catalog, termData)
                         ELSE catalog
           /\ termsSeen' = IF termData.present
                           THEN Append(termsSeen, [term |-> termData.term,
                                                   ids |-> DOMAIN termData.courses])
                           ELSE termsSeen
  /\ termsLeft' = Tail(termsLeft)
  /\ UNCHANGED <<pc, oscarArgs, outputDir, catalogFile, mainVars, pageVars,
                 unitVars, parserVars, bannerVars>>

\* after the loop: saveCatalog unless --dry-run or --skip-catalog
SaveCatalog ==
  /\ pc = "oscarTerms"
  /\ termsLeft = <<>>
  /\ catalogFile' = IF catalog.present /\ ~oscarArgs.dryRun /\ ~oscarArgs.skipCatalog
                    THEN JsonFile(catalog.map)
                    ELSE catalogFile
  /\ pc' = "oscarDone"
  /\ UNCHANGED <<oscarArgs, outputDir, termFiles, catalog, termsLeft, termsSeen,
                 mainVars, pageVars, unitVars, parserVars, bannerVars>>

NextOscar ==
  \/ OscarStart
  \/ InitSessionThrows
  \/ LoadCatalog
  \/ FetchTerm
  \/ SaveCatalog

SpecOscar == InitOscar /\ [][NextOscar]_vars

\* whether the run merges what it fetches into the catalog
Merging == ~oscarArgs.dryRun /\ ~oscarArgs.skipCatalog

\* the loop over the terms has ended and the catalog is not saved yet
TermsMerged == pc = "oscarTerms" /\ termsLeft = <<>> /\ Merging /\ catalog.present

\* the terms of this run in whose data the course appears
TermsWith(id) ==
  {termsSeen[k].term : k \in {j \in 1..Len(termsSeen) : id \in termsSeen[j].ids}}

\* the lastSeen the catalog file holds for the course, if it holds one
StoredLastSeen(id) ==
  IF catalogFile.present /\ catalogFile.parses /\ id \in DOMAIN catalogFile.map
  THEN {catalogFile.map[id].lastSeen}
  ELSE {}

\* the greatest number of a set of numbers
Greatest(S) == CHOOSE x \in S : \A y \in S : y <= x

\* C28: after the crawler has merged its terms, the lastSeen of every course
\* of the catalog is the latest term, among the merged terms and the
\* lastSeen the catalog held before, in whose data the course appears,
\* whatever the order of the terms.
C28_LastSeenIsLatest ==
  TermsMerged =>
    \A id \in DOMAIN catalog.map :
      catalog.map[id].lastSeen = Greatest(TermsWith(id) \cup StoredLastSeen(id))

(***************************************************************************)
(* Dry runs of either crawler.                                             *)
(***************************************************************************)
\* a run of the catalog crawler or a run of the OSCAR crawler
InitEither == InitMain \/ InitOscar

NextEither == NextMain \/ NextOscar

SpecEither == InitEither /\ [][NextEither]_vars

\* C24: a dry run saves nothing: with --dry-run neither crawler makes its
\* output directory or writes a file (courses.json, specializations.json,
\* a term file, catalog.json), in any step of any run, the runs in which
\* pages or terms fail included.
C24_DryRunSavesNothing ==
  [][/\ isDryRun' => UNCHANGED <<staticDir, coursesFile, specsFile>>
     /\ oscarArgs'.dryRun => UNCHANGED <<outputDir, termFiles, catalogFile>>]_vars

\* a dry run of the OSCAR crawler that fetched two terms with data, one
\* without, and ended with no directory and no file
C24_Witness ==
  /\ pc = "oscarDone"
  /\ oscarArgs.dryRun
  /\ Len(oscarArgs.terms) = 3
  /\ Len(termsSeen) = 2
  /\ ~outputDir
  /\ termFiles = EmptyMap
  /\ catalogFile = AbsentFile

(***************************************************************************)
(* One merge at a time.                                                    *)
(***************************************************************************)
\* the step ends the run and clears the locals of main
EndsRun == pc' = "start"

\* every page that was fetched has its specialization in the registry, as
\* it was crawled
AllCrawledMerged ==
  AfterMergeSpecs =>
    \A k \in 1..Len(fetchResults) :
      fetchResults[k].ok =>
        /\ SPECIALIZATION_URLS[k].id \in DOMAIN specializations
        /\ specializations[SPECIALIZATION_URLS[k].id]
             = crawlSpecialization(fetchResults[k].html, SPECIALIZATION_URLS[k])

\* C25: the merges of a run are serialized: no step of a run is part of two
\* merges, that is, none writes both the course registry and the
\* specialization registry, and the course registry is not written while
\* the specializations are crawled and merged; and the registry after the
\* last merge holds every specialization that was crawled, none lost.
C25_MergesSerialized ==
  /\ []AllCrawledMerged
  /\ [][EndsRun \/ ~(courses' # courses /\ specializations' # specializations)]_vars
  /\ [][(crawledSpecs' # crawledSpecs /\ ~EndsRun) => UNCHANGED <<courses, newCourses>>]_vars

\* both pages were fetched and merged into a registry that held a third,
\* and the course registry had been merged before
C25_Witness ==
  /\ AfterMergeSpecs
  /\ \A k \in 1..Len(fetchResults) : fetchResults[k].ok
  /\ Len(crawledSpecs) = 2
  /\ DOMAIN specializations = {"cs:ml", "cs:cs", "cs:ii"}
  /\ DOMAIN courses # {}

=============================================================================
